---- MODULE Spec2Model ----
(***************************************************************************)
(* Model of the text-to-table parsing engine (CSVParser, TSVParser and     *)
(* MarkdownParser).  A text is a sequence of one-character strings.  Each  *)
(* parser entry point is one action: it draws its text from a bounded set, *)
(* runs the whole call and stores the returned value.  The `message` field *)
(* of a ParseError is a fixed function of its code and of maxColumns and   *)
(* is not represented.                                                     *)
(***************************************************************************)
EXTENDS Integers, Sequences, FiniteSets, TLC

VARIABLES
    pc,      \* "idle" before the call, "done" after it
    op,      \* the entry point that was called
    text,    \* the text argument
    opts,    \* the options argument (defaults filled in)
    res,     \* the returned ParseResult / MarkdownParseResult
    delim,   \* the delimiter field of the CSVParser that was called
    valid,   \* the boolean returned by validate / isSeparatorLine
    cells,   \* the value returned by CSVParser.parseLine
    aligns,  \* the alignments derived by the header detection
    rowRes,  \* the { row, formats } returned by parseTableRowWithFormatting
    cellRes, \* the { text, format } returned by parseTextFormatting
    multi,   \* the multipleTablesData of the result of parseMultipleTables
    partial, \* the segments returned by parsePartialFormatting, and the history
             \* of its patterns array: [patterns, segments]
    detected, \* the format returned by detectFormat / detectFormatFromText
    hook,    \* the state of useTableCreator and its pending timers
    ctl      \* the state of the plugin controller and its pending steps

vars ==
    <<pc, op, text, opts, res, delim, valid, cells, aligns, rowRes, cellRes, multi,
      partial, detected, hook, ctl>>

(***************************************************************************)
(* Bounds of the explored inputs.                                          *)
(***************************************************************************)
MaxLen == 5        \* longest delimited text, in characters
MaxLineLen == 5    \* longest single line given to parseLine
MaxSepLen == 6     \* longest line given to the header detection
MaxTokens == 5     \* most tokens (cells and line breaks) of a Markdown text
MaxRowLen == 6     \* longest table row between its outer pipes
MaxFormattedTokens == 4   \* most tokens of a Markdown text with formatted cells
MaxEmphasisLen == 7       \* longest cell of emphasis markers and a letter
MaxStarLen == 10          \* longest cell of asterisks and a letter
MaxLinkTokens == 5        \* most tokens of a cell with brackets
MaxNumberTokens == 4      \* most tokens of a cell with digits
MaxLinkTextLen == 7       \* longest text of a link with emphasis markup
MaxDocLines == 4          \* most lines of a document with several tables
MaxHeadingLines == 3      \* most lines of a document with heading lines
MaxDetectLines == 3       \* most lines of a text given to the format detection
MaxEdits == 4             \* most text edits in a run of useTableCreator
MaxSelectMessages == 3    \* most select-* messages sent to the plugin controller

(***************************************************************************)
(* Program constants.                                                      *)
(***************************************************************************)
DefaultMaxRows == 100
DefaultMaxColumns == 20

NL == "\n"
TAB == "\t"
QUOTE == "\""
PIPE == "|"
BACKSLASH == "\\"

(***************************************************************************)
(* String primitives of the JavaScript runtime.                            *)
(***************************************************************************)
Min(a, b) == IF a < b THEN a ELSE b

IsWs(c) == c \in {" ", TAB, NL}

RECURSIVE TrimStart(_)
TrimStart(s) == IF s # <<>> /\ IsWs(Head(s)) THEN TrimStart(Tail(s)) ELSE s

RECURSIVE TrimEnd(_)
TrimEnd(s) ==
    IF s # <<>> /\ IsWs(s[Len(s)]) THEN TrimEnd(SubSeq(s, 1, Len(s) - 1)) ELSE s

\* String.prototype.trim
Trim(s) == TrimEnd(TrimStart(s))

RECURSIVE SplitFrom(_, _, _, _, _)
SplitFrom(s, sep, i, cur, acc) ==
    IF i > Len(s) THEN Append(acc, cur)
    ELSE IF s[i] = sep THEN SplitFrom(s, sep, i + 1, <<>>, Append(acc, cur))
    ELSE SplitFrom(s, sep, i + 1, Append(cur, s[i]), acc)

\* String.prototype.split with a one-character separator
Split(s, sep) == SplitFrom(s, sep, 1, <<>>, <<>>)

\* String.prototype.split with the empty separator: one string per character
SplitChars(s) == [i \in 1..Len(s) |-> <<s[i]>>]

RECURSIVE Join(_, _)
\* Array.prototype.join
Join(ss, sep) ==
    IF ss = <<>> THEN <<>>
    ELSE IF Len(ss) = 1 THEN ss[1]
    ELSE ss[1] \o <<sep>> \o Join(Tail(ss), sep)

\* String.prototype.includes with a one-character needle
Includes(s, c) == \E i \in 1..Len(s) : s[i] = c

StartsWith(s, c) == s # <<>> /\ s[1] = c
EndsWith(s, c) == s # <<>> /\ s[Len(s)] = c

\* String.prototype.slice(1, -1)
SliceInner(s) == SubSeq(s, 2, Len(s) - 1)

\* lines.filter(line => line.trim())
NonBlank(lines) == SelectSeq(lines, LAMBDA l : Trim(l) # <<>>)

\* lines.map(line => line.trim()).filter(Boolean)
TrimmedNonBlank(lines) ==
    SelectSeq([i \in 1..Len(lines) |-> Trim(lines[i])], LAMBDA l : l # <<>>)

\* All texts over alphabet A of at most n characters
Texts(A, n) == UNION {[1..k -> A] : k \in 0..n}


(***************************************************************************)
(* Options.  parse() destructures its options argument with the defaults   *)
(* hasHeader = true, maxRows = 100, maxColumns = 20, trimWhitespace = true.*)
(***************************************************************************)
Options ==
    [hasHeader : BOOLEAN,
     maxRows : {1, DefaultMaxRows},
     maxColumns : {1, DefaultMaxColumns},
     trimWhitespace : BOOLEAN]

DefaultOptions ==
    [hasHeader |-> TRUE, maxRows |-> DefaultMaxRows,
     maxColumns |-> DefaultMaxColumns, trimWhitespace |-> TRUE]

\* Variant of IsBlankText that tests !text, without the trim
IsEmptyText(t) == t = <<>>

\* !text.trim(): the blank-text test at the head of parse() and validate()
IsBlankText(t) == Trim(t) = <<>>

\* Variant of ExceedsColumnLimit that is off by one
ExceedsColumnLimitOffByOne(row, o) == Len(row) > o.maxColumns + 1

\* row.length > maxColumns
ExceedsColumnLimit(row, o) == Len(row) > o.maxColumns

\* Variant of BelowRowCap that uses <= for <
BelowOrAtRowCap(n, o) == n <= o.maxRows

\* The row cap of the parse loops: i < maxRows in CSVParser.parse,
\* data.length < maxRows in MarkdownParser.parse
BelowRowCap(n, o) == n < o.maxRows

ParseError(line, code) == [line |-> line, code |-> code]

\* Variant of FirstRowLength that reads the last row instead of the first
FirstRowLengthOfLast(data) == IF data = <<>> THEN 0 ELSE Len(data[Len(data)])

\* data[0]?.length || 0
FirstRowLength(data) == IF data = <<>> THEN 0 ELSE Len(data[1])

\* The value held by res before any parse call has returned.  metadata is
\* flattened into rowCount, columnCount and format; an absent alignments or
\* cellFormats field (delimited results, the blank-text return) is the empty
\* sequence; src is the
\* history of the loop indices whose rows were pushed to data.
NoResult ==
    [data |-> <<>>, hasHeader |-> FALSE, errors |-> <<>>, alignments |-> <<>>,
     cellFormats |-> <<>>,
     rowCount |-> 0, columnCount |-> 0, format |-> "none", src |-> <<>>]

(***************************************************************************)
(* CSVParser.  The parser object holds its delimiter d.                    *)
(***************************************************************************)
\* Variant of IsEscapedQuote that does not look at inQuotes
IsEscapedQuoteAnywhere(inQuotes, nextIsQuote) == nextIsQuote

\* inQuotes && nextChar === '"'
IsEscapedQuote(inQuotes, nextIsQuote) == inQuotes /\ nextIsQuote

RECURSIVE ParseLineFrom(_, _, _, _, _, _, _)
ParseLineFrom(line, d, trimWhitespace, i, current, inQuotes, acc) ==
    IF i > Len(line)
    THEN Append(acc, IF trimWhitespace THEN Trim(current) ELSE current)
    ELSE
        LET char == line[i]
            nextIsQuote == i + 1 <= Len(line) /\ line[i + 1] = QUOTE
        IN  IF char = QUOTE
            THEN IF IsEscapedQuote(inQuotes, nextIsQuote)
                 THEN ParseLineFrom(line, d, trimWhitespace, i + 2,
                                    Append(current, QUOTE), inQuotes, acc)
                 ELSE ParseLineFrom(line, d, trimWhitespace, i + 1,
                                    current, ~inQuotes, acc)
            ELSE IF char = d /\ ~inQuotes
            THEN ParseLineFrom(line, d, trimWhitespace, i + 1, <<>>, inQuotes,
                     Append(acc, IF trimWhitespace THEN Trim(current) ELSE current))
            ELSE ParseLineFrom(line, d, trimWhitespace, i + 1,
                               Append(current, char), inQuotes, acc)

\* CSVParser.parseLine
ParseLine(line, d, trimWhitespace) ==
    ParseLineFrom(line, d, trimWhitespace, 1, <<>>, FALSE, <<>>)

\* metadata.format of a CSVParser result
CSVFormat(d) == IF d = TAB THEN "tsv" ELSE "csv"

\* The early return of parse() for a blank text
EmptyResult(format) ==
    [data |-> <<>>, hasHeader |-> FALSE,
     errors |-> <<ParseError(1, "EMPTY_DATA")>>, alignments |-> <<>>,
     cellFormats |-> <<>>,
     rowCount |-> 0, columnCount |-> 0, format |-> format, src |-> <<>>]

\* The loop of CSVParser.parse: acc.data and acc.errors are the arrays being
\* built; acc.src records, for each data.push, the loop index i + 1 it came from.
\* parseLine is total, so the catch branch (PARSE_ERROR) is never taken.
RECURSIVE CSVLoop(_, _, _, _, _)
CSVLoop(lines, d, o, i, acc) ==
    IF ~(i < Len(lines) /\ BelowRowCap(i, o)) THEN acc
    ELSE
        LET row == ParseLine(lines[i + 1], d, o.trimWhitespace)
        IN  IF ExceedsColumnLimit(row, o)
            THEN CSVLoop(lines, d, o, i + 1,
                     [acc EXCEPT !.errors =
                         Append(@, ParseError(i + 1, "COLUMN_LIMIT_EXCEEDED"))])
            ELSE CSVLoop(lines, d, o, i + 1,
                     [acc EXCEPT !.data = Append(@, row),
                                 !.src = Append(@, i + 1)])

\* CSVParser.parse
CSVParse(d, t, o) ==
    IF IsBlankText(t) THEN EmptyResult(CSVFormat(d))
    ELSE
        LET lines == NonBlank(Split(t, NL))
            acc == CSVLoop(lines, d, o, 0,
                           [data |-> <<>>, errors |-> <<>>, src |-> <<>>])
        IN  [data |-> acc.data, hasHeader |-> o.hasHeader, errors |-> acc.errors,
             alignments |-> <<>>, cellFormats |-> <<>>,
             rowCount |-> Len(acc.data), columnCount |-> FirstRowLength(acc.data),
             format |-> CSVFormat(d), src |-> acc.src]

\* CSVParser.validate
CSVValidate(d, t) ==
    IF IsBlankText(t) THEN FALSE
    ELSE
        LET lines == NonBlank(SplitChars(t))
        IN  Len(lines) > 0 /\ \E i \in 1..Len(lines) : Includes(lines[i], d)

(***************************************************************************)
(* TSVParser: a CSVParser constructed with the tab delimiter.              *)
(***************************************************************************)
\* Variant of TSVParse whose CSVParser is constructed with the default delimiter
TSVParseDefaultDelimiter(t, o) == [CSVParse(",", t, o) EXCEPT !.format = "tsv"]

\* TSVParser.parse
TSVParse(t, o) == [CSVParse(TAB, t, o) EXCEPT !.format = "tsv"]

\* TSVParser.validate
TSVValidate(t) ==
    IF IsBlankText(t) THEN FALSE
    ELSE
        LET lines == NonBlank(Split(t, NL))
        IN  Len(lines) > 0 /\ \E i \in 1..Len(lines) : Includes(lines[i], TAB)

(***************************************************************************)
(* MarkdownParser.                                                         *)
(***************************************************************************)
\* MarkdownParser.isTableRow
IsTableRow(line) ==
    LET trimmed == Trim(line)
    IN  StartsWith(trimmed, PIPE) /\ EndsWith(trimmed, PIPE) /\ Len(trimmed) > 2

\* /^:?-+:?$/.test(cell)
MatchesSeparatorCell(cell) ==
    LET a == IF StartsWith(cell, ":") THEN Tail(cell) ELSE cell
        b == IF EndsWith(a, ":") THEN SubSeq(a, 1, Len(a) - 1) ELSE a
    IN  b # <<>> /\ \A i \in 1..Len(b) : b[i] = "-"

\* MarkdownParser.isSeparatorLine
IsSeparatorLine(line) ==
    LET trimmed == Trim(line)
    IN  IF ~StartsWith(trimmed, PIPE) \/ ~EndsWith(trimmed, PIPE) THEN FALSE
        ELSE LET cs == Split(SliceInner(trimmed), PIPE)
             IN  \A i \in 1..Len(cs) : MatchesSeparatorCell(Trim(cs[i]))

\* Variant of AlignmentOf without the trailing-colon case
AlignmentOfNoRight(cell) ==
    LET cellTrimmed == Trim(cell)
    IN  IF StartsWith(cellTrimmed, ":") /\ EndsWith(cellTrimmed, ":") THEN "center"
        ELSE "left"

\* The callback of cells.map in parseAlignments
AlignmentOf(cell) ==
    LET cellTrimmed == Trim(cell)
    IN  IF StartsWith(cellTrimmed, ":") /\ EndsWith(cellTrimmed, ":") THEN "center"
        ELSE IF EndsWith(cellTrimmed, ":") THEN "right"
        ELSE "left"

\* MarkdownParser.parseAlignments
ParseAlignments(separatorLine) ==
    LET cs == Split(SliceInner(Trim(separatorLine)), PIPE)
    IN  [i \in 1..Len(cs) |-> AlignmentOf(cs[i])]

RECURSIVE ReplacePairFrom(_, _, _, _, _, _)
ReplacePairFrom(s, c1, c2, r, i, acc) ==
    IF i > Len(s) THEN acc
    ELSE IF s[i] = c1 /\ i + 1 <= Len(s) /\ s[i + 1] = c2
    THEN ReplacePairFrom(s, c1, c2, r, i + 2, Append(acc, r))
    ELSE ReplacePairFrom(s, c1, c2, r, i + 1, Append(acc, s[i]))

\* s.replace(/c1c2/g, r) for a two-character pattern
ReplacePair(s, c1, c2, r) == ReplacePairFrom(s, c1, c2, r, 1, <<>>)

\* MarkdownParser.unescapeMarkdown
UnescapeMarkdown(s) ==
    ReplacePair(ReplacePair(s, BACKSLASH, PIPE, PIPE), BACKSLASH, BACKSLASH, BACKSLASH)

(***************************************************************************)
(* Cell formatting (parseTextFormatting).  A CellFormat is a record whose  *)
(* optional fields are present only when the code sets them.  A character  *)
(* outside ASCII is written by its code point, e.g. "U+00A5" for the yen   *)
(* sign.                                                                   *)
(***************************************************************************)
RECURSIVE IndexFrom(_, _, _)
\* s.indexOf(c, i): the first index of c at or after i, 0 when there is none
IndexFrom(s, c, i) ==
    IF i > Len(s) THEN 0
    ELSE IF s[i] = c THEN i
    ELSE IndexFrom(s, c, i + 1)

\* /\[([^\]]+)\]\(([^)]+)\)/ tried at index i (min = 1), and the same with
\* [^\]]* for the bracketed text (min = 0): the index of the closing ")" or 0.
\* Both negated classes are greedy and cannot step over their terminator, so
\* the bracketed text ends at the first "]" and the url at the first ")".
LinkEndAt(s, i, min) ==
    IF ~(i <= Len(s) /\ s[i] = "[") THEN 0
    ELSE
        LET p == IndexFrom(s, "]", i + 1)
        IN  IF p = 0 \/ p - i - 1 < min \/ ~(p + 1 <= Len(s) /\ s[p + 1] = "(")
            THEN 0
            ELSE LET q == IndexFrom(s, ")", p + 2)
                 IN  IF q = 0 \/ q = p + 2 THEN 0 ELSE q

\* The two capture groups of a bracket match that starts at index i
LinkTextAt(s, i) == SubSeq(s, i + 1, IndexFrom(s, "]", i + 1) - 1)
LinkUrlAt(s, i, q) == SubSeq(s, IndexFrom(s, "]", i + 1) + 2, q - 1)

\* /\*{n}([^*]+)\*{n}/ tried at index i: the index of the last "*" or 0
EmphasisEndAt(s, i, n) ==
    IF i + n - 1 > Len(s) \/ \E k \in i..(i + n - 1) : s[k] # "*" THEN 0
    ELSE
        LET e == IndexFrom(s, "*", i + n)
        IN  IF e = 0 \/ e = i + n \/ e + n - 1 > Len(s)
               \/ \E k \in e..(e + n - 1) : s[k] # "*"
            THEN 0
            ELSE e + n - 1

RECURSIVE RemoveEmphasisFrom(_, _, _)
RemoveEmphasisFrom(s, i, n) ==
    IF i > Len(s) THEN <<>>
    ELSE
        LET e == EmphasisEndAt(s, i, n)
        IN  IF e = 0 THEN <<s[i]>> \o RemoveEmphasisFrom(s, i + 1, n)
            ELSE SubSeq(s, i + n, e - n) \o RemoveEmphasisFrom(s, e + 1, n)

\* s.replace(/\*{n}([^*]+)\*{n}/g, '$1')
RemoveEmphasis(s, n) == RemoveEmphasisFrom(s, 1, n)

\* Variant of LinkDisplayText without the replace of **..**
LinkDisplayTextKeepBold(linkText) ==
    RemoveEmphasis(RemoveEmphasis(linkText, 3), 1)

\* The display text of a link: the three replace calls on the link text
LinkDisplayText(linkText) ==
    RemoveEmphasis(RemoveEmphasis(RemoveEmphasis(linkText, 3), 2), 1)

\* Variant of ImageMatch that requires a non-empty alternative text
ImageMatchNonEmptyAlt(s) == StartsWith(s, "!") /\ LinkEndAt(s, 2, 1) = Len(s)

\* /^!\[([^\]]*)\]\(([^)]+)\)$/
ImageMatch(s) == StartsWith(s, "!") /\ LinkEndAt(s, 2, 0) = Len(s)

\* /^\[([^\]]+)\]\(([^)]+)\)$/
LinkMatch(s) == s # <<>> /\ LinkEndAt(s, 1, 1) = Len(s)

\* n copies of the character c
Repeat(c, n) == [k \in 1..n |-> c]

\* /^\*{n}(.*)\*{n}$/ and /^_{n}(.*_{n})$/: the cell starts and ends with n
\* markers that do not share a character (a cell holds no line terminator)
WrapMatch(s, c, n) ==
    /\ Len(s) >= 2 * n
    /\ SubSeq(s, 1, n) = Repeat(c, n)
    /\ SubSeq(s, Len(s) - n + 1, Len(s)) = Repeat(c, n)

\* Capture group 1 of /^\*{n}(.*)\*{n}$/
AsteriskGroup(s, n) == SubSeq(s, n + 1, Len(s) - n)

\* Capture group 1 of /^_{n}(.*_{n})$/: the closing markers are inside the group
UnderscoreGroup(s, n) == SubSeq(s, n + 1, Len(s))

\* The group of match(asterisk form) || match(underscore form)
EmphasisGroup(s, n) ==
    IF WrapMatch(s, "*", n) THEN AsteriskGroup(s, n) ELSE UnderscoreGroup(s, n)

EmphasisMatch(s, n) == WrapMatch(s, "*", n) \/ WrapMatch(s, "_", n)

(***************************************************************************)
(* parseNumericFormat.  A number is the exact decimal [num, scale] that    *)
(* stands for num / 10^scale, without trailing zeros in the fraction.      *)
(***************************************************************************)
Digits == {"0", "1", "2", "3", "4", "5", "6", "7", "8", "9"}

DigitValue(c) ==
    CASE c = "0" -> 0 [] c = "1" -> 1 [] c = "2" -> 2 [] c = "3" -> 3
      [] c = "4" -> 4 [] c = "5" -> 5 [] c = "6" -> 6 [] c = "7" -> 7
      [] c = "8" -> 8 [] c = "9" -> 9

\* (¥|￥|\$|€|£|₹|₩|₽)
CurrencySymbols ==
    {"U+00A5", "U+FFE5", "$", "U+20AC", "U+00A3", "U+20B9", "U+20A9", "U+20BD"}

\* (個|台|本|枚|件|人|回|kg|g|m|cm|mm|L|ml|時間|分|秒)
Units ==
    {<<"U+500B">>, <<"U+53F0">>, <<"U+672C">>, <<"U+679A">>, <<"U+4EF6">>,
     <<"U+4EBA">>, <<"U+56DE">>, <<"k", "g">>, <<"g">>, <<"m">>, <<"c", "m">>,
     <<"m", "m">>, <<"L">>, <<"m", "l">>, <<"U+6642", "U+9593">>, <<"U+5206">>,
     <<"U+79D2">>}

\* /^[0-9,]+(?:\.[0-9]+)?$/
NumberMatch(s) ==
    LET p == IndexFrom(s, ".", 1)
        whole == IF p = 0 THEN s ELSE SubSeq(s, 1, p - 1)
        fraction == IF p = 0 THEN <<>> ELSE SubSeq(s, p + 1, Len(s))
    IN  /\ whole # <<>>
        /\ \A i \in 1..Len(whole) : whole[i] \in Digits \cup {","}
        /\ p # 0 => fraction # <<>>
        /\ \A i \in 1..Len(fraction) : fraction[i] \in Digits

\* s.replace(/,/g, '')
RemoveCommas(s) == SelectSeq(s, LAMBDA c : c # ",")

RECURSIVE DecimalValue(_, _)
\* The integer written by a digit string, after the digits read so far
DecimalValue(ds, acc) ==
    IF ds = <<>> THEN acc ELSE DecimalValue(Tail(ds), 10 * acc + DigitValue(Head(ds)))

RECURSIVE Normalize(_, _)
Normalize(num, scale) ==
    IF scale > 0 /\ num % 10 = 0 THEN Normalize(num \div 10, scale - 1)
    ELSE [num |-> num, scale |-> scale]

\* The value parseFloat returns when no number can be read
NaN == [nan |-> TRUE]

\* Variant of ParseFloat that reads the digits before the point only
ParseFloatTruncating(s) ==
    IF s = <<>> THEN NaN
    ELSE
        LET p == IndexFrom(s, ".", 1)
            whole == IF p = 0 THEN s ELSE SubSeq(s, 1, p - 1)
        IN  Normalize(DecimalValue(whole, 0), 0)

\* parseFloat on a string of the shape [0-9]*(\.[0-9]+)?: NaN for the empty
\* string, otherwise the number it writes
ParseFloat(s) ==
    IF s = <<>> THEN NaN
    ELSE
        LET p == IndexFrom(s, ".", 1)
            whole == IF p = 0 THEN s ELSE SubSeq(s, 1, p - 1)
            fraction == IF p = 0 THEN <<>> ELSE SubSeq(s, p + 1, Len(s))
        IN  Normalize(DecimalValue(whole \o fraction, 0), Len(fraction))

\* The unit alternative that the unit pattern captures, <<>> when it fails
UnitOf(s) ==
    LET fits == {u \in Units :
                    /\ Len(s) > Len(u)
                    /\ SubSeq(s, Len(s) - Len(u) + 1, Len(s)) = u
                    /\ NumberMatch(SubSeq(s, 1, Len(s) - Len(u)))}
    IN  IF fits = {} THEN <<>> ELSE CHOOSE u \in fits : TRUE

\* MarkdownParser.parseNumericFormat: the fields it returns, or
\* [isNumeric |-> FALSE] for null.  A unit is written as the string of its characters.
ParseNumericFormat(t) ==
    LET trimmed == Trim(t)
        rest == Tail(trimmed)
        unit == UnitOf(trimmed)
        percent == SubSeq(trimmed, 1, Len(trimmed) - 1)
        measure == SubSeq(trimmed, 1, Len(trimmed) - Len(unit))
    IN  IF /\ trimmed # <<>> /\ trimmed[1] \in CurrencySymbols /\ NumberMatch(rest)
           /\ ParseFloat(RemoveCommas(rest)) # NaN
        THEN [isNumeric |-> TRUE, currency |-> trimmed[1],
              numericValue |-> ParseFloat(RemoveCommas(rest))]
        ELSE IF /\ EndsWith(trimmed, "%") /\ NumberMatch(percent)
                /\ ParseFloat(RemoveCommas(percent)) # NaN
        THEN [isNumeric |-> TRUE, unit |-> <<"%">>,
              numericValue |-> ParseFloat(RemoveCommas(percent))]
        ELSE IF unit # <<>> /\ ParseFloat(RemoveCommas(measure)) # NaN
        THEN [isNumeric |-> TRUE, unit |-> unit,
              numericValue |-> ParseFloat(RemoveCommas(measure))]
        ELSE IF NumberMatch(trimmed) /\ ParseFloat(RemoveCommas(trimmed)) # NaN
        THEN [isNumeric |-> TRUE, numericValue |-> ParseFloat(RemoveCommas(trimmed))]
        ELSE [isNumeric |-> FALSE]

(***************************************************************************)
(* parsePartialFormattingNew.  Offsets are those of the code (from 0); a   *)
(* pattern is [type, start, end, content, url].                            *)
(***************************************************************************)
RECURSIVE LinkPatternsFrom(_, _)
\* The exec loop of linkRegex from index i
LinkPatternsFrom(s, i) ==
    IF i > Len(s) THEN <<>>
    ELSE
        LET q == LinkEndAt(s, i, 1)
        IN  IF q = 0 THEN LinkPatternsFrom(s, i + 1)
            ELSE <<[type |-> "link", start |-> i - 1, end |-> q,
                    content |-> LinkDisplayText(LinkTextAt(s, i)),
                    url |-> LinkUrlAt(s, i, q)]>>
                 \o LinkPatternsFrom(s, q + 1)

RECURSIVE EmphasisMatchesFrom(_, _, _, _)
\* The exec loop of boldItalicRegex (n = 3), boldRegex (2), italicRegex (1)
EmphasisMatchesFrom(s, i, n, type) ==
    IF i > Len(s) THEN <<>>
    ELSE
        LET e == EmphasisEndAt(s, i, n)
        IN  IF e = 0 THEN EmphasisMatchesFrom(s, i + 1, n, type)
            ELSE <<[type |-> type, start |-> i - 1, end |-> e,
                    content |-> SubSeq(s, i + n, e - n), url |-> <<>>]>>
                 \o EmphasisMatchesFrom(s, e + 1, n, type)

\* patterns.some(p => p.type in types && pos >= p.start && pos < p.end)
StartsInside(patterns, types, pos) ==
    \E k \in 1..Len(patterns) :
        /\ patterns[k].type \in types
        /\ pos >= patterns[k].start
        /\ pos < patterns[k].end

PatternTypes == {"link", "bolditalic", "bold", "italic"}

\* The types whose patterns make the loop of `type` reject a match
BlockingTypes(type) ==
    CASE type = "bolditalic" -> {"link"}
      [] type = "bold" -> {"link", "bolditalic"}
      [] type = "italic" -> PatternTypes

RECURSIVE AcceptMatches(_, _, _)
\* One emphasis loop: push the matches whose index is in no blocking pattern
AcceptMatches(patterns, matches, k) ==
    IF k > Len(matches) THEN patterns
    ELSE IF StartsInside(patterns, BlockingTypes(matches[k].type), matches[k].start)
    THEN AcceptMatches(patterns, matches, k + 1)
    ELSE AcceptMatches(Append(patterns, matches[k]), matches, k + 1)

\* The patterns array before it is sorted
FindPatterns(s) ==
    LET links == LinkPatternsFrom(s, 1)
        withBoldItalic ==
            AcceptMatches(links, EmphasisMatchesFrom(s, 1, 3, "bolditalic"), 1)
        withBold ==
            AcceptMatches(withBoldItalic, EmphasisMatchesFrom(s, 1, 2, "bold"), 1)
    IN  AcceptMatches(withBold, EmphasisMatchesFrom(s, 1, 1, "italic"), 1)

RECURSIVE InsertByStart(_, _)
InsertByStart(sorted, p) ==
    IF sorted = <<>> THEN <<p>>
    ELSE IF p.start < Head(sorted).start THEN <<p>> \o sorted
    ELSE <<Head(sorted)>> \o InsertByStart(Tail(sorted), p)

RECURSIVE SortByStart(_, _, _)
\* patterns.sort((a, b) => a.start - b.start): stable
SortByStart(patterns, k, sorted) ==
    IF k > Len(patterns) THEN sorted
    ELSE SortByStart(patterns, k + 1, InsertByStart(sorted, patterns[k]))

\* A segment of unformatted text
TextSegment(t, start) == [text |-> t, start |-> start, end |-> start + Len(t)]

\* Variant of PatternSegment that keeps the source offsets of the pattern
PatternSegmentAtSource(p, start) ==
    LET base == [text |-> p.content, start |-> p.start, end |-> p.end]
    IN  CASE p.type = "link" -> base @@ [isLink |-> TRUE, linkUrl |-> p.url]
          [] p.type = "bolditalic" ->
                 base @@ [isLink |-> FALSE, isBold |-> TRUE, isItalic |-> TRUE]
          [] p.type = "bold" -> base @@ [isLink |-> FALSE, isBold |-> TRUE]
          [] p.type = "italic" -> base @@ [isLink |-> FALSE, isItalic |-> TRUE]

\* The segment pushed for a pattern; a field whose value is undefined is absent
PatternSegment(p, start) ==
    LET base == [text |-> p.content, start |-> start, end |-> start + Len(p.content)]
    IN  CASE p.type = "link" -> base @@ [isLink |-> TRUE, linkUrl |-> p.url]
          [] p.type = "bolditalic" ->
                 base @@ [isLink |-> FALSE, isBold |-> TRUE, isItalic |-> TRUE]
          [] p.type = "bold" -> base @@ [isLink |-> FALSE, isBold |-> TRUE]
          [] p.type = "italic" -> base @@ [isLink |-> FALSE, isItalic |-> TRUE]

RECURSIVE BuildSegments(_, _, _, _, _, _)
\* The loop over the sorted patterns, then the remaining text
BuildSegments(s, patterns, k, currentInputPos, currentOutputPos, segments) ==
    IF k > Len(patterns)
    THEN IF currentInputPos < Len(s)
         THEN Append(segments,
                  TextSegment(SubSeq(s, currentInputPos + 1, Len(s)), currentOutputPos))
         ELSE segments
    ELSE
        LET pattern == patterns[k]
            beforeText == IF pattern.start > currentInputPos
                          THEN SubSeq(s, currentInputPos + 1, pattern.start)
                          ELSE <<>>
            withBefore == IF beforeText # <<>>
                          THEN Append(segments, TextSegment(beforeText, currentOutputPos))
                          ELSE segments
            outPos == currentOutputPos + Len(beforeText)
        IN  BuildSegments(s, patterns, k + 1, pattern.end,
                          outPos + Len(pattern.content),
                          Append(withBefore, PatternSegment(pattern, outPos)))

\* MarkdownParser.parsePartialFormattingNew
ParsePartialFormatting(s) ==
    LET segments ==
            BuildSegments(s, SortByStart(FindPatterns(s), 1, <<>>), 1, 0, 0, <<>>)
    IN  IF Len(segments) > 0 THEN segments ELSE <<TextSegment(s, 0)>>

\* seg.isBold || seg.isItalic || seg.isLink
IsFormattedSegment(seg) ==
    \/ "isBold" \in DOMAIN seg
    \/ "isItalic" \in DOMAIN seg
    \/ ("isLink" \in DOMAIN seg /\ seg.isLink)

RECURSIVE ConcatTexts(_)
\* segments.map(seg => seg.text).join('')
ConcatTexts(segments) ==
    IF segments = <<>> THEN <<>>
    ELSE Head(segments).text \o ConcatTexts(Tail(segments))

\* imageMatch[1] || 'Image'
ImageText(alt) == IF alt = <<>> THEN <<"I", "m", "a", "g", "e">> ELSE alt

\* MarkdownParser.parseTextFormatting: the returned { text, format }
ParseTextFormatting(cellContent) ==
    LET unescapedText == UnescapeMarkdown(cellContent)
        imageAlt == LinkTextAt(unescapedText, 2)
        displayText == LinkDisplayText(LinkTextAt(unescapedText, 1))
        numericFormat == ParseNumericFormat(unescapedText)
        partialSegments == ParsePartialFormatting(unescapedText)
        plainText == ConcatTexts(partialSegments)
    IN  IF ImageMatch(unescapedText)
        THEN [text |-> ImageText(imageAlt),
              format |-> [text |-> ImageText(imageAlt), isImage |-> TRUE,
                          imageUrl |-> LinkUrlAt(unescapedText, 2, Len(unescapedText)),
                          imageAlt |-> imageAlt]]
        ELSE IF LinkMatch(unescapedText)
        THEN [text |-> displayText,
              format |-> [text |-> displayText, isLink |-> TRUE,
                          linkUrl |-> LinkUrlAt(unescapedText, 1, Len(unescapedText))]]
        ELSE IF EmphasisMatch(unescapedText, 3)
        THEN [text |-> EmphasisGroup(unescapedText, 3),
              format |-> [text |-> EmphasisGroup(unescapedText, 3),
                          isBold |-> TRUE, isItalic |-> TRUE]]
        ELSE IF EmphasisMatch(unescapedText, 2)
        THEN [text |-> EmphasisGroup(unescapedText, 2),
              format |-> [text |-> EmphasisGroup(unescapedText, 2), isBold |-> TRUE]]
        ELSE IF EmphasisMatch(unescapedText, 1)
        THEN [text |-> EmphasisGroup(unescapedText, 1),
              format |-> [text |-> EmphasisGroup(unescapedText, 1), isItalic |-> TRUE]]
        ELSE IF numericFormat.isNumeric
        THEN [text |-> unescapedText,
              format |-> [text |-> unescapedText] @@ numericFormat]
        ELSE IF \/ Len(partialSegments) > 1
                \/ (Len(partialSegments) = 1 /\ IsFormattedSegment(partialSegments[1]))
        THEN [text |-> plainText,
              format |-> [text |-> plainText, segments |-> partialSegments]]
        ELSE [text |-> unescapedText, format |-> [text |-> unescapedText]]

\* parseTextFormatting reaches its call of parsePartialFormatting: no earlier
\* test returned
ReachesPartialFormatting(cellContent) ==
    LET unescapedText == UnescapeMarkdown(cellContent)
    IN  /\ ~ImageMatch(unescapedText)
        /\ ~LinkMatch(unescapedText)
        /\ \A n \in 1..3 : ~EmphasisMatch(unescapedText, n)
        /\ ~ParseNumericFormat(unescapedText).isNumeric

\* The text returned by MarkdownParser.parseTextFormatting
ParseTextFormattingText(cellContent) == ParseTextFormatting(cellContent).text

\* A finished cell of parseTableRowWithFormatting: the { text, format } of
\* the (trimmed) cell content
FinishCell(current, trimWhitespace) ==
    ParseTextFormatting(IF trimWhitespace THEN Trim(current) ELSE current)

\* Variant of PushCell that records no format for a plain cell
PushCellFormattedOnly(acc, cell) ==
    [row |-> Append(acc.row, cell.text),
     formats |-> IF DOMAIN cell.format = {"text"} THEN acc.formats
                 ELSE Append(acc.formats, cell.format)]

\* row.push(text); formats.push(format)
PushCell(acc, cell) ==
    [row |-> Append(acc.row, cell.text), formats |-> Append(acc.formats, cell.format)]

RECURSIVE ParseTableRowFrom(_, _, _, _, _)
ParseTableRowFrom(content, trimWhitespace, i, current, acc) ==
    IF i > Len(content) THEN PushCell(acc, FinishCell(current, trimWhitespace))
    ELSE
        LET char == content[i]
        IN  IF char = PIPE
            THEN ParseTableRowFrom(content, trimWhitespace, i + 1, <<>>,
                     PushCell(acc, FinishCell(current, trimWhitespace)))
            ELSE IF char = BACKSLASH /\ i + 1 <= Len(content)
                    /\ content[i + 1] \in {PIPE, BACKSLASH}
            THEN ParseTableRowFrom(content, trimWhitespace, i + 2,
                                   Append(current, content[i + 1]), acc)
            ELSE ParseTableRowFrom(content, trimWhitespace, i + 1,
                                   Append(current, char), acc)

\* MarkdownParser.parseTableRowWithFormatting: the returned { row, formats }
ParseTableRowWithFormatting(line, trimWhitespace) ==
    ParseTableRowFrom(SliceInner(Trim(line)), trimWhitespace, 1, <<>>,
                      [row |-> <<>>, formats |-> <<>>])

\* The row of cell texts returned by parseTableRowWithFormatting
ParseTableRow(line, trimWhitespace) ==
    ParseTableRowWithFormatting(line, trimWhitespace).row

RECURSIVE ExtractTableLinesNoBreak(_, _, _, _)
\* Variant of ExtractTableLines without the break at a non-table line
ExtractTableLinesNoBreak(lines, k, inTable, tableLines) ==
    IF k > Len(lines) THEN tableLines
    ELSE
        LET line == lines[k]
            trimmedLine == Trim(line)
        IN  IF IsTableRow(trimmedLine) \/ IsSeparatorLine(trimmedLine)
            THEN ExtractTableLinesNoBreak(lines, k + 1, TRUE, Append(tableLines, line))
            ELSE IF inTable /\ trimmedLine = <<>>
            THEN ExtractTableLinesNoBreak(lines, k + 1, inTable, Append(tableLines, line))
            ELSE ExtractTableLinesNoBreak(lines, k + 1, inTable, tableLines)

RECURSIVE ExtractTableLines(_, _, _, _)
ExtractTableLines(lines, k, inTable, tableLines) ==
    IF k > Len(lines) THEN tableLines
    ELSE
        LET line == lines[k]
            trimmedLine == Trim(line)
        IN  IF IsTableRow(trimmedLine) \/ IsSeparatorLine(trimmedLine)
            THEN ExtractTableLines(lines, k + 1, TRUE, Append(tableLines, line))
            ELSE IF inTable /\ trimmedLine = <<>>
            THEN ExtractTableLines(lines, k + 1, inTable, Append(tableLines, line))
            ELSE IF inTable THEN tableLines
            ELSE ExtractTableLines(lines, k + 1, inTable, tableLines)

\* MarkdownParser.extractTableFromText
ExtractTableFromText(t) ==
    Join(ExtractTableLines(Split(t, NL), 1, FALSE, <<>>), NL)

\* The row loop of MarkdownParser.parse; acc.src records, for each data.push,
\* the loop index i + 1 it came from.  The tokenizer is total, so the catch
\* branch (PARSE_ERROR) is never taken.
\* Variant of PushRow without the continue after the error
PushRowAfterError(acc, parsed, o, i) ==
    [acc EXCEPT !.errors =
             IF ExceedsColumnLimit(parsed.row, o)
             THEN Append(@, ParseError(i + 1, "COLUMN_LIMIT_EXCEEDED")) ELSE @,
         !.data = Append(@, parsed.row),
         !.cellFormats = Append(@, parsed.formats),
         !.src = Append(@, i + 1)]

\* The column check of the loop body on the parsed row of line i + 1: the
\* error, or the pushes to data and cellFormats
PushRow(acc, parsed, o, i) ==
    IF ExceedsColumnLimit(parsed.row, o)
    THEN [acc EXCEPT !.errors =
             Append(@, ParseError(i + 1, "COLUMN_LIMIT_EXCEEDED"))]
    ELSE [acc EXCEPT !.data = Append(@, parsed.row),
                     !.cellFormats = Append(@, parsed.formats),
                     !.src = Append(@, i + 1)]

RECURSIVE MarkdownLoop(_, _, _, _, _)
MarkdownLoop(lines, o, separatorLineIndex, i, acc) ==
    IF ~(i < Len(lines) /\ BelowRowCap(Len(acc.data), o)) THEN acc
    ELSE MarkdownLoop(lines, o, separatorLineIndex, i + 1,
             IF i = separatorLineIndex \/ ~IsTableRow(lines[i + 1])
             THEN acc
             ELSE PushRow(acc,
                      ParseTableRowWithFormatting(lines[i + 1], o.trimWhitespace),
                      o, i))

\* The lines array of MarkdownParser.parse
MarkdownLines(t) == TrimmedNonBlank(Split(ExtractTableFromText(t), NL))

\* Variant of SeparatorLineIndex that detects the separator without the
\* hasHeader option
SeparatorLineIndexIgnoringOption(lines, o) ==
    IF Len(lines) >= 2 /\ IsSeparatorLine(lines[2]) THEN 1 ELSE -1

\* separatorLineIndex after the header detection of MarkdownParser.parse
SeparatorLineIndex(lines, o) ==
    IF o.hasHeader /\ Len(lines) >= 2 /\ IsSeparatorLine(lines[2]) THEN 1 ELSE -1

\* Variant of AdjustAlignments that truncates but does not pad
AdjustAlignmentsNoPad(alignments, data) ==
    IF Len(data) > 0 /\ Len(alignments) > 0
    THEN SubSeq(alignments, 1, Min(Len(alignments), Len(data[1])))
    ELSE alignments

\* The adjustment of alignments to the first row's column count
AdjustAlignments(alignments, data) ==
    IF Len(data) > 0 /\ Len(alignments) > 0
    THEN [k \in 1..Len(data[1]) |->
             IF k <= Len(alignments) THEN alignments[k] ELSE "left"]
    ELSE alignments

\* The result that MarkdownParser.parse returns after its loop
MarkdownResult(acc, alignments, hasHeader) ==
    [data |-> acc.data,
     hasHeader |-> hasHeader,
     errors |-> acc.errors,
     alignments |-> AdjustAlignments(alignments, acc.data),
     cellFormats |-> acc.cellFormats,
     rowCount |-> Len(acc.data), columnCount |-> FirstRowLength(acc.data),
     format |-> "markdown", src |-> acc.src]

\* MarkdownParser.parse
MarkdownParse(t, o) ==
    IF IsBlankText(t) THEN EmptyResult("markdown")
    ELSE
        LET lines == MarkdownLines(t)
            separatorLineIndex == SeparatorLineIndex(lines, o)
            alignments == IF separatorLineIndex = 1
                          THEN ParseAlignments(lines[2]) ELSE <<>>
        IN  MarkdownResult(
                MarkdownLoop(lines, o, separatorLineIndex, 0,
                             [data |-> <<>>, cellFormats |-> <<>>,
                              errors |-> <<>>, src |-> <<>>]),
                alignments, o.hasHeader /\ separatorLineIndex >= 0)

(***************************************************************************)
(* parseMultipleTables.                                                    *)
(***************************************************************************)
RECURSIVE ExtractTablesClosingAtBlank(_, _, _, _, _)
\* Variant of ExtractTablesFrom that closes the table at a blank line too
ExtractTablesClosingAtBlank(lines, i, inTable, currentTable, tables) ==
    IF i > Len(lines)
    THEN IF inTable /\ Len(currentTable) > 0
         THEN Append(tables, Join(currentTable, NL))
         ELSE tables
    ELSE
        LET line == lines[i]
            tableLine == IsTableRow(Trim(line)) \/ IsSeparatorLine(Trim(line))
        IN  IF tableLine
            THEN ExtractTablesClosingAtBlank(lines, i + 1, TRUE,
                     Append(IF inTable THEN currentTable ELSE <<>>, line), tables)
            ELSE ExtractTablesClosingAtBlank(lines, i + 1, FALSE, <<>>,
                     IF inTable /\ Len(currentTable) > 0
                     THEN Append(tables, Join(currentTable, NL))
                     ELSE tables)

RECURSIVE ExtractTablesFrom(_, _, _, _, _)
\* The line loop of extractMultipleTablesFromText and the save of the last
\* table; tables holds the content of each saved table
ExtractTablesFrom(lines, i, inTable, currentTable, tables) ==
    IF i > Len(lines)
    THEN IF inTable /\ Len(currentTable) > 0
         THEN Append(tables, Join(currentTable, NL))
         ELSE tables
    ELSE
        LET line == lines[i]
            trimmedLine == Trim(line)
            tableLine == IsTableRow(trimmedLine) \/ IsSeparatorLine(trimmedLine)
        IN  IF inTable /\ ~tableLine
            THEN IF trimmedLine # <<>>
                 THEN ExtractTablesFrom(lines, i + 1, FALSE, <<>>,
                          IF Len(currentTable) > 0
                          THEN Append(tables, Join(currentTable, NL))
                          ELSE tables)
                 ELSE ExtractTablesFrom(lines, i + 1, inTable,
                                        Append(currentTable, line), tables)
            ELSE IF tableLine
            THEN ExtractTablesFrom(lines, i + 1, TRUE,
                     Append(IF inTable THEN currentTable ELSE <<>>, line), tables)
            ELSE ExtractTablesFrom(lines, i + 1, inTable, currentTable, tables)

\* MarkdownParser.extractMultipleTablesFromText: the content of each table
ExtractMultipleTablesFromText(t) ==
    ExtractTablesFrom(Split(t, NL), 1, FALSE, <<>>, <<>>)

\* Variant of TableEntry that leaves cellFormats out
TableEntryWithoutFormats(result) ==
    [data |-> result.data, alignments |-> result.alignments,
     cellFormats |-> <<>>, hasHeader |-> result.hasHeader]

\* An element of multipleTablesData, built from the parse result of a table
TableEntry(result) ==
    [data |-> result.data, alignments |-> result.alignments,
     cellFormats |-> result.cellFormats, hasHeader |-> result.hasHeader]

\* Variant of HasRows that keeps every table
HasRowsAlways(tableResult) == TRUE

\* tableResult.data.length > 0
HasRows(tableResult) == Len(tableResult.data) > 0

\* Variant of PushTable that reports the errors of the tables with rows only
PushTableErrorsOfKept(acc, tableResult) ==
    IF HasRows(tableResult)
    THEN [acc EXCEPT
             !.multipleTablesData = Append(@, TableEntry(tableResult)),
             !.totalRows = @ + Len(tableResult.data),
             !.maxColumns =
                 IF FirstRowLength(tableResult.data) > @
                 THEN FirstRowLength(tableResult.data) ELSE @,
             !.allErrors = @ \o tableResult.errors]
    ELSE acc

\* The body of the loop over the tables: the entry, totalRows and maxColumns
\* of a table with rows, and the errors of every table
PushTable(acc, tableResult) ==
    LET pushed ==
            IF HasRows(tableResult)
            THEN [acc EXCEPT
                     !.multipleTablesData = Append(@, TableEntry(tableResult)),
                     !.totalRows = @ + Len(tableResult.data),
                     !.maxColumns =
                         IF FirstRowLength(tableResult.data) > @
                         THEN FirstRowLength(tableResult.data) ELSE @]
            ELSE acc
    IN  [pushed EXCEPT !.allErrors = @ \o tableResult.errors]

RECURSIVE ParseTablesFrom(_, _, _, _)
\* The loop over the tables of parseMultipleTables; acc holds
\* multipleTablesData, allErrors, totalRows and maxColumns
ParseTablesFrom(tables, o, k, acc) ==
    IF k > Len(tables) THEN acc
    ELSE ParseTablesFrom(tables, o, k + 1,
                         PushTable(acc, MarkdownParse(tables[k], o)))

\* The result of parseMultipleTables for one table
SingleTableResult(single) ==
    [result |-> single, multipleTablesData |-> <<TableEntry(single)>>]

\* The result of parseMultipleTables for two or more tables
MultipleTablesResult(acc) ==
    [result |->
         [data |-> <<>>, hasHeader |-> FALSE, errors |-> acc.allErrors,
          alignments |-> <<>>, cellFormats |-> <<>>,
          rowCount |-> acc.totalRows, columnCount |-> acc.maxColumns,
          format |-> "markdown", src |-> <<>>],
     multipleTablesData |-> acc.multipleTablesData]

\* The tables array of parseMultipleTables for a tables array of any length
TablesResult(tables, o) ==
    IF Len(tables) = 0
    THEN [result |-> EmptyResult("markdown"), multipleTablesData |-> <<>>]
    ELSE IF Len(tables) = 1
    THEN SingleTableResult(MarkdownParse(tables[1], o))
    ELSE MultipleTablesResult(
             ParseTablesFrom(tables, o, 1,
                 [multipleTablesData |-> <<>>, allErrors |-> <<>>,
                  totalRows |-> 0, maxColumns |-> 0]))

\* MarkdownParser.parseMultipleTables: the result, [result, multipleTablesData]
ParseMultipleTables(t, o) == TablesResult(ExtractMultipleTablesFromText(t), o)

(***************************************************************************)
(* Format detection.                                                       *)
(***************************************************************************)
\* line.startsWith('|') && line.endsWith('|') && line.length > 2
PipeLine(line) == StartsWith(line, PIPE) /\ EndsWith(line, PIPE) /\ Len(line) > 2

\* detectFormat of the parser registry; its lines come from split('')
DetectFormat(t) ==
    LET trimmed == Trim(t)
        lines == TrimmedNonBlank(SplitChars(trimmed))
        hasMarkdownTable == \E k \in 1..Len(lines) : PipeLine(lines[k])
    IN  IF trimmed = <<>> THEN "csv"
        ELSE IF hasMarkdownTable THEN "markdown"
        ELSE IF Includes(trimmed, TAB) THEN "tsv"
        ELSE "csv"

\* /^\s*\|[\s\-:|]+\|\s*$/.test(trimmed) on a trimmed line
SeparatorShape(trimmed) ==
    /\ Len(trimmed) >= 3
    /\ trimmed[1] = PIPE
    /\ trimmed[Len(trimmed)] = PIPE
    /\ \A k \in 2..(Len(trimmed) - 1) : IsWs(trimmed[k]) \/ trimmed[k] \in {"-", ":", PIPE}

\* (line.match(/c/g) || []).length
CountChar(line, c) == Cardinality({k \in 1..Len(line) : line[k] = c})

\* A table row with at least three pipes: |col1|col2|
MultiColumnRow(trimmed) ==
    StartsWith(trimmed, PIPE) /\ EndsWith(trimmed, PIPE) /\ CountChar(trimmed, PIPE) >= 3

RECURSIVE TotalCount(_, _)
\* lines.reduce((sum, line) => sum + (line.match(/c/g) || []).length, 0)
TotalCount(lines, c) ==
    IF lines = <<>> THEN 0 ELSE CountChar(Head(lines), c) + TotalCount(Tail(lines), c)

\* hasMarkdownTableRows: at least two rows with at least three pipes
HasMarkdownTableRows(lines) ==
    Len(SelectSeq(lines, LAMBDA l : MultiColumnRow(Trim(l)))) >= 2

\* detectFormatFromText of the UI; avgTabsPerLine >= 1 is total >= lines.length
DetectFormatFromText(t) ==
    LET lines == NonBlank(Split(Trim(t), NL))
        hasMarkdownTableSeparator ==
            \E k \in 1..Len(lines) : SeparatorShape(Trim(lines[k]))
        hasTabs == \E k \in 1..Len(lines) : Includes(lines[k], TAB)
    IN  IF Trim(t) = <<>> THEN "csv"
        ELSE IF Len(lines) = 0 THEN "csv"
        ELSE IF hasMarkdownTableSeparator /\ HasMarkdownTableRows(lines) THEN "markdown"
        ELSE IF hasTabs /\ TotalCount(lines, TAB) >= Len(lines) THEN "tsv"
        ELSE "csv"

\* MarkdownParser.validate
MarkdownValidate(t) ==
    IF IsBlankText(t) THEN FALSE
    ELSE LET lines == TrimmedNonBlank(Split(t, NL))
         IN  \E i \in 1..Len(lines) : IsTableRow(lines[i])

(***************************************************************************)
(* Input sets.                                                             *)
(***************************************************************************)
CSVAlphabet == {"a", ",", QUOTE, " ", NL}
TSVAlphabet == {"a", TAB, QUOTE, " ", NL}
CSVTexts == Texts(CSVAlphabet, MaxLen)
TSVTexts == Texts(TSVAlphabet, MaxLen)

\* Markdown texts are rendered from tokens: a cell token adds "|" and the cell,
\* the line-break token closes the line with "|" (if it has a cell) and adds a
\* newline; a line without cells is a blank line.
MdCells == {<<"a">>, <<"-">>, <<"-", ":">>}
MdTokens == MdCells \cup {<<NL>>}

RECURSIVE RenderMdFrom(_, _, _, _)
RenderMdFrom(toks, k, open, acc) ==
    IF k > Len(toks) THEN (IF open THEN Append(acc, PIPE) ELSE acc)
    ELSE IF toks[k] = <<NL>>
    THEN RenderMdFrom(toks, k + 1, FALSE,
                      Append(IF open THEN Append(acc, PIPE) ELSE acc, NL))
    ELSE RenderMdFrom(toks, k + 1, TRUE, Append(acc, PIPE) \o toks[k])

RenderMd(toks) == RenderMdFrom(toks, 1, FALSE, <<>>)

\* A three-line table whose second line has one cell more than the others
WideSecondRowExample ==
    RenderMd(<<<<"a">>, <<NL>>, <<"a">>, <<"a">>, <<NL>>, <<"a">>>>)

\* Markdown texts whose cells are a bold word, a link and a number
BoldCell == <<"*", "*", "a", "*", "*">>
LinkCell == <<"[", "a", "]", "(", "u", ")">>
FormattedCells == {BoldCell, LinkCell, <<"1">>}
FormattedMdTexts ==
    {RenderMd(toks) :
        toks \in Texts(FormattedCells \cup {<<NL>>}, MaxFormattedTokens)}

MdTexts ==
    {RenderMd(toks) : toks \in Texts(MdTokens, MaxTokens)}
        \cup {WideSecondRowExample} \cup FormattedMdTexts

\* The two lines of the specification's CSV quoting examples
ExampleLine1 == <<"a", ",", QUOTE, "b", ",", "c", QUOTE, ",", "d">>
ExampleLine2 ==
    <<"a", ",", QUOTE, "s", "a", "y", " ", QUOTE, QUOTE, "h", "i", QUOTE, QUOTE,
      QUOTE, ",", "c">>
LineAlphabet == {"a", ",", TAB, QUOTE, " "}
Lines == Texts(LineAlphabet, MaxLineLen) \cup {ExampleLine1, ExampleLine2}

\* The separator row of the specification's alignment example
ExampleSeparator ==
    <<PIPE, ":", "-", "-", "-", PIPE, ":", "-", "-", "-", ":", PIPE,
      "-", "-", "-", ":", PIPE>>
SepAlphabet == {PIPE, "-", ":", " ", "a"}
SepLines == Texts(SepAlphabet, MaxSepLen) \cup {ExampleSeparator}

Delimiters == {",", TAB}

\* Table rows: an outer pipe, a content of pipes, backslashes, blanks and a
\* letter, and the closing outer pipe
EscapedPipeExample == <<PIPE, "a", BACKSLASH, PIPE, "b", PIPE>>
RowAlphabet == {"a", PIPE, BACKSLASH, " "}
RowLines ==
    {<<PIPE>> \o c \o <<PIPE>> : c \in Texts(RowAlphabet, MaxRowLen)}
        \cup {EscapedPipeExample}

\* The values held by rowRes, cellRes and partial before a call has returned
NoRow == [row |-> <<>>, formats |-> <<>>]
NoCell == [text |-> <<>>, format |-> [text |-> <<>>]]
NoPartial == [patterns |-> <<>>, segments |-> <<>>]

\* Documents: lines that are a one-cell row, a two-cell row with an italic
\* and a numeric cell, a separator, a line of prose or blank
DocLineKinds ==
    {<<PIPE, "a", PIPE>>, <<PIPE, "*", "a", "*", PIPE, "1", PIPE>>,
     <<PIPE, "-", PIPE>>, <<"x">>, <<>>}

\* Three tables of one row, each after a line of prose
ThreeTablesExample ==
    <<<<"x">>, <<PIPE, "a", PIPE>>, <<"x">>,
      <<PIPE, "*", "a", "*", PIPE, "1", PIPE>>, <<"x">>, <<PIPE, "a", PIPE>>>>

\* Lines of the documents with headings: a heading with an italic text, a
\* one-cell row and a line of prose
HeadingLineKinds ==
    {<<"#", " ", "*", "a", "*">>, <<PIPE, "a", PIPE>>, <<"x">>}

\* Two tables, each a header line and a separator, with a blank line between
BlankSeparatedTablesExample ==
    <<<<PIPE, "a", PIPE>>, <<PIPE, "-", PIPE>>, <<>>,
      <<PIPE, "a", PIPE>>, <<PIPE, "-", PIPE>>>>

Documents ==
    {Join(ls, NL) : ls \in Texts(DocLineKinds, MaxDocLines)
                             \cup {ThreeTablesExample, BlankSeparatedTablesExample}
                             \cup Texts(HeadingLineKinds, MaxHeadingLines)}

\* Lines of the texts given to the format detection: rows and separators of
\* one and of two columns, a comma line, a tab line and a blank line
DetectLineKinds ==
    {<<PIPE, "a", PIPE>>, <<PIPE, "-", PIPE>>,
     <<PIPE, "a", PIPE, "a", PIPE>>, <<PIPE, "-", PIPE, "-", PIPE>>,
     <<"a", ",", "a">>, <<"a", TAB, "a">>, <<" ">>}

DetectTexts == {Join(ls, NL) : ls \in Texts(DetectLineKinds, MaxDetectLines)}

\* Before useTableCreator is mounted
NoHook == [mounted |-> FALSE]

\* Before the plugin controller is loaded
NoController == [loaded |-> FALSE]

RECURSIVE Flatten(_)
\* The text written by a sequence of tokens
Flatten(toks) == IF toks = <<>> THEN <<>> ELSE Head(toks) \o Flatten(Tail(toks))

\* Cells: emphasis markers around a letter; brackets, parentheses, a bang and
\* an asterisk; digits with separators, a currency symbol, a percent sign and
\* units; and the cells of the specification's examples
EmphasisAlphabet == {"*", "_", "a"}
StarAlphabet == {"*", "a"}
LinkTokens == {<<"[">>, <<"]", "(">>, <<")">>, <<"a">>, <<"*">>, <<"!">>}
NumberTokens ==
    {<<"1">>, <<"0">>, <<",">>, <<".">>, <<"$">>, <<"%">>, <<"k", "g">>, <<"g">>}

\* $1,200
CurrencyExample == <<"$", "1", ",", "2", "0", "0">>
\* 1,200.50 with the yen sign, and 12.5 with the unit 時間
YenExample == <<"U+00A5", "1", ",", "2", "0", "0", ".", "5", "0">>
HoursExample == <<"1", "2", ".", "5", "U+6642", "U+9593">>
\* [**Mantine**](url), written with one-letter words
BoldLinkExample == <<"[", "*", "*", "m", "*", "*", "]", "(", "u", ")">>
\* **Bold** and [link](url)
BoldAndLinkExample ==
    <<"*", "*", "b", "*", "*", " ", "&", " ", "[", "l", "]", "(", "u", ")">>
\* foo [bar](url) baz
MixedLinkExample == <<"f", " ", "[", "b", "]", "(", "u", ")", " ", "z">>
\* ![](u): an image without alternative text
ExampleCells ==
    {CurrencyExample, YenExample, HoursExample, BoldLinkExample,
     BoldAndLinkExample, MixedLinkExample, <<"!", "[", "]", "(", "u", ")">>}

\* Links whose text is made of asterisks and a letter, alone or after a word
MarkedLinkCells ==
    {pre \o <<"[">> \o t \o <<"]", "(", "u", ")">> :
        pre \in {<<>>, <<"a">>}, t \in Texts(StarAlphabet, MaxLinkTextLen)}

CellTexts ==
    Texts(EmphasisAlphabet, MaxEmphasisLen) \cup MarkedLinkCells \cup Texts(StarAlphabet, MaxStarLen)
        \cup {Flatten(toks) : toks \in Texts(LinkTokens, MaxLinkTokens)}
        \cup {Flatten(toks) : toks \in Texts(NumberTokens, MaxNumberTokens)}
        \cup ExampleCells

(***************************************************************************)
(* Actions: one call of one entry point.                                   *)
(***************************************************************************)
\* Before a parse call: the options argument has been prepared
Init ==
    /\ pc = "idle"
    /\ op = "none"
    /\ text = <<>>
    /\ opts \in Options
    /\ res = NoResult
    /\ delim = ","
    /\ valid = FALSE
    /\ cells = <<>>
    /\ aligns = <<>>
    /\ rowRes = NoRow
    /\ cellRes = NoCell
    /\ multi = <<>>
    /\ partial = NoPartial
    /\ detected = "none"
    /\ hook = NoHook
    /\ ctl = NoController

\* new CSVParser(',').parse(t, o)
CallCSVParse ==
    /\ pc = "idle"
    /\ \E t \in CSVTexts :
        /\ text' = t
        /\ res' = CSVParse(",", t, opts)
    /\ pc' = "done"
    /\ op' = "CSVParser.parse"
    /\ delim' = ","
    /\ UNCHANGED <<opts, valid, cells, aligns, rowRes, cellRes, multi, partial, detected, hook, ctl>>

\* new TSVParser().parse(t, o)
CallTSVParse ==
    /\ pc = "idle"
    /\ \E t \in TSVTexts :
        /\ text' = t
        /\ res' = TSVParse(t, opts)
    /\ pc' = "done"
    /\ op' = "TSVParser.parse"
    /\ delim' = TAB
    /\ UNCHANGED <<opts, valid, cells, aligns, rowRes, cellRes, multi, partial, detected, hook, ctl>>

\* new MarkdownParser().parse(t, o)
CallMarkdownParse ==
    /\ pc = "idle"
    /\ \E t \in MdTexts :
        /\ text' = t
        /\ res' = MarkdownParse(t, opts)
    /\ pc' = "done"
    /\ op' = "MarkdownParser.parse"
    /\ UNCHANGED <<opts, delim, valid, cells, aligns, rowRes, cellRes, multi, partial, detected, hook, ctl>>

\* new CSVParser(d).validate(t)
CallCSVValidate ==
    /\ pc = "idle"
    /\ \E d \in Delimiters, t \in CSVTexts \cup TSVTexts :
        /\ text' = t
        /\ delim' = d
        /\ valid' = CSVValidate(d, t)
    /\ pc' = "done"
    /\ op' = "CSVParser.validate"
    /\ UNCHANGED <<opts, res, cells, aligns, rowRes, cellRes, multi, partial, detected, hook, ctl>>

\* new TSVParser().validate(t)
CallTSVValidate ==
    /\ pc = "idle"
    /\ \E t \in CSVTexts \cup TSVTexts :
        /\ text' = t
        /\ valid' = TSVValidate(t)
    /\ pc' = "done"
    /\ op' = "TSVParser.validate"
    /\ delim' = TAB
    /\ UNCHANGED <<opts, res, cells, aligns, rowRes, cellRes, multi, partial, detected, hook, ctl>>

\* new CSVParser(d).parseLine(line, trimWhitespace), as called by parse
CallParseLine ==
    /\ pc = "idle"
    /\ \E d \in Delimiters, line \in Lines, tw \in BOOLEAN :
        /\ text' = line
        /\ delim' = d
        /\ opts' = [opts EXCEPT !.trimWhitespace = tw]
        /\ cells' = ParseLine(line, d, tw)
    /\ pc' = "done"
    /\ op' = "CSVParser.parseLine"
    /\ UNCHANGED <<res, valid, aligns, rowRes, cellRes, multi, partial, detected, hook, ctl>>

\* The header detection of MarkdownParser.parse on a potential separator:
\* isSeparatorLine, and parseAlignments when it answers true
CallDetectSeparator ==
    /\ pc = "idle"
    /\ \E line \in SepLines :
        /\ text' = line
        /\ valid' = IsSeparatorLine(line)
        /\ aligns' = IF IsSeparatorLine(line) THEN ParseAlignments(line) ELSE <<>>
    /\ pc' = "done"
    /\ op' = "MarkdownParser.parseAlignments"
    /\ UNCHANGED <<opts, res, delim, cells, rowRes, cellRes, multi, partial, detected, hook, ctl>>

\* new MarkdownParser().parseTableRowWithFormatting(line, tw), as called by parse
CallParseTableRow ==
    /\ pc = "idle"
    /\ \E line \in RowLines, tw \in BOOLEAN :
        /\ text' = line
        /\ opts' = [opts EXCEPT !.trimWhitespace = tw]
        /\ rowRes' = ParseTableRowWithFormatting(line, tw)
    /\ pc' = "done"
    /\ op' = "MarkdownParser.parseTableRowWithFormatting"
    /\ UNCHANGED <<res, delim, valid, cells, aligns, cellRes, multi, partial, detected, hook, ctl>>

\* new MarkdownParser().parseTextFormatting(c), as called for each cell
CallParseTextFormatting ==
    /\ pc = "idle"
    /\ \E c \in CellTexts :
        /\ text' = c
        /\ cellRes' = ParseTextFormatting(c)
    /\ pc' = "done"
    /\ op' = "MarkdownParser.parseTextFormatting"
    /\ UNCHANGED <<opts, res, delim, valid, cells, aligns, rowRes, multi, partial, detected, hook, ctl>>

\* new MarkdownParser().parsePartialFormatting(c), as called for a cell that
\* no earlier test of parseTextFormatting classified
CallParsePartialFormatting ==
    /\ pc = "idle"
    /\ \E c \in CellTexts :
        /\ ReachesPartialFormatting(c)
        /\ text' = c
        /\ partial' = [patterns |-> FindPatterns(UnescapeMarkdown(c)),
                       segments |-> ParsePartialFormatting(UnescapeMarkdown(c))]
    /\ pc' = "done"
    /\ op' = "MarkdownParser.parsePartialFormatting"
    /\ UNCHANGED <<opts, res, delim, valid, cells, aligns, rowRes, cellRes, multi, detected, hook, ctl>>

\* new MarkdownParser().parseMultipleTables(t, o)
CallParseMultipleTables ==
    /\ pc = "idle"
    /\ \E t \in Documents :
        /\ text' = t
        /\ \E parsed \in {ParseMultipleTables(t, opts)} :
               /\ res' = parsed.result
               /\ multi' = parsed.multipleTablesData
    /\ pc' = "done"
    /\ op' = "MarkdownParser.parseMultipleTables"
    /\ UNCHANGED <<opts, delim, valid, cells, aligns, rowRes, cellRes, partial, detected, hook, ctl>>

\* The parse entry points
Next == CallCSVParse \/ CallTSVParse \/ CallMarkdownParse

Spec == Init /\ [][Next]_vars

\* The delimited parsers
NextDelim == CallCSVParse \/ CallTSVParse

SpecDelim == Init /\ [][NextDelim]_vars

\* The Markdown parser
NextMd == CallMarkdownParse

SpecMd == Init /\ [][NextMd]_vars

\* validate, and the per-line functions
NextFn ==
    CallCSVValidate \/ CallTSVValidate \/ CallParseLine \/ CallDetectSeparator

\* Before a call of validate or of a per-line function
InitFn ==
    /\ pc = "idle"
    /\ op = "none"
    /\ text = <<>>
    /\ opts = DefaultOptions
    /\ res = NoResult
    /\ delim = ","
    /\ valid = FALSE
    /\ cells = <<>>
    /\ aligns = <<>>
    /\ rowRes = NoRow
    /\ cellRes = NoCell
    /\ multi = <<>>
    /\ partial = NoPartial
    /\ detected = "none"
    /\ hook = NoHook
    /\ ctl = NoController

SpecFn == InitFn /\ [][NextFn]_vars

\* The row tokenizer of the Markdown parser
NextRow == CallParseTableRow

SpecRow == InitFn /\ [][NextRow]_vars

\* detectFormat(t) of the parser registry
CallDetectFormat ==
    /\ pc = "idle"
    /\ \E t \in DetectTexts :
        /\ text' = t
        /\ detected' = DetectFormat(t)
    /\ pc' = "done"
    /\ op' = "detectFormat"
    /\ UNCHANGED <<opts, res, delim, valid, cells, aligns, rowRes, cellRes, multi,
                   partial, hook, ctl>>

\* detectFormatFromText(t) of the UI
CallDetectFormatFromText ==
    /\ pc = "idle"
    /\ \E t \in DetectTexts :
        /\ text' = t
        /\ detected' = DetectFormatFromText(t)
    /\ pc' = "done"
    /\ op' = "detectFormatFromText"
    /\ UNCHANGED <<opts, res, delim, valid, cells, aligns, rowRes, cellRes, multi,
                   partial, hook, ctl>>

\* new MarkdownParser().parse(t, o) on a document with prose
CallParseDocument ==
    /\ pc = "idle"
    /\ \E t \in Documents :
        /\ text' = t
        /\ res' = MarkdownParse(t, opts)
    /\ pc' = "done"
    /\ op' = "MarkdownParser.parse"
    /\ UNCHANGED <<opts, delim, valid, cells, aligns, rowRes, cellRes, multi,
                   partial, detected, hook, ctl>>

\* The single-table entry point on documents
NextDoc == CallParseDocument

SpecDoc == Init /\ [][NextDoc]_vars

(***************************************************************************)
(* useTableCreator: the text, the format, the autoDetectionTimeout state   *)
(* and the timers set with setTimeout that were neither cleared nor fired. *)
(* A handler runs on the state of the latest render.                       *)
(***************************************************************************)
\* The texts typed into the text input: comma, tab and Markdown tables, and
\* blank texts
HookTexts ==
    {<<"a", ",", "a">>, <<"a", TAB, "a">>,
     Join(<<<<PIPE, "a", PIPE, "a", PIPE>>, <<PIPE, "-", PIPE, "-", PIPE>>>>, NL),
     <<"a">>, <<" ">>, <<>>}

\* The state after the first render: useState('') , useState('csv'),
\* useState(null); last and edits record the last non-blank text and the
\* number of edits
MountedHook ==
    [mounted |-> TRUE, text |-> <<>>, format |-> "csv", autoDetectionTimeout |-> 0,
     pending |-> {}, nextTimer |-> 1, last |-> <<>>, edits |-> 0]

\* clearTimeout(id): the timer is no longer pending
ClearTimeout(pending, id) == {t \in pending : t.id # id}

\* The body of if (uploadedFiles.length === 0 && newText.trim()): when the
\* detected format differs from format, clear autoDetectionTimeout, set a new
\* timer and store it.  The cleanup of the effect on autoDetectionTimeout
\* then clears the previous timeout, which the handler has just cleared.
ScheduleDetection(h, detectedFormat) ==
    IF detectedFormat # h.format
    THEN [h EXCEPT
             !.pending = ClearTimeout(@, h.autoDetectionTimeout)
                             \cup {[id |-> h.nextTimer, format |-> detectedFormat]},
             !.autoDetectionTimeout = h.nextTimer,
             !.nextTimer = @ + 1]
    ELSE h

\* handleTextChange(newText), with no uploaded files
HandleTextChange ==
    /\ hook.mounted
    /\ hook.edits < MaxEdits
    /\ \E newText \in HookTexts :
           hook' = [(IF Trim(newText) # <<>>
                     THEN ScheduleDetection(hook, DetectFormatFromText(newText))
                     ELSE hook)
                    EXCEPT !.text = newText,
                           !.last = IF Trim(newText) # <<>> THEN newText ELSE @,
                           !.edits = @ + 1]
    /\ UNCHANGED <<pc, op, text, opts, res, delim, valid, cells, aligns, rowRes,
                   cellRes, multi, partial, detected, ctl>>

\* The callback of a pending timer: setFormat(detectedFormat)
DetectionTimerFires ==
    /\ hook.mounted
    /\ \E t \in hook.pending :
           hook' = [hook EXCEPT !.format = t.format, !.pending = @ \ {t}]
    /\ UNCHANGED <<pc, op, text, opts, res, delim, valid, cells, aligns, rowRes,
                   cellRes, multi, partial, detected, ctl>>

NextHook == HandleTextChange \/ DetectionTimerFires

InitHook ==
    /\ pc = "idle"
    /\ op = "none"
    /\ text = <<>>
    /\ opts = DefaultOptions
    /\ res = NoResult
    /\ delim = ","
    /\ valid = FALSE
    /\ cells = <<>>
    /\ aligns = <<>>
    /\ rowRes = NoRow
    /\ cellRes = NoCell
    /\ multi = <<>>
    /\ partial = NoPartial
    /\ detected = "none"
    /\ hook = MountedHook
    /\ ctl = NoController

SpecHook == InitHook /\ [][NextHook]_vars

(***************************************************************************)
(* The plugin controller: the isTableEditorSelecting flag, the select-*    *)
(* handlers suspended at their await, the reset timers set in their        *)
(* finally blocks and the selectionchange events not yet delivered.  The   *)
(* 100 ms of a reset timer are taken to be long enough for the event of    *)
(* the handler's own selection to be delivered first.                      *)
(***************************************************************************)
SelectMessages == {"select-table-column", "select-all-table-cells"}

\* The state after the module is loaded: let isTableEditorSelecting = false.
\* handlers maps each handler started to its message and stage; skipped and
\* handled record what the selectionchange listener did with each event
LoadedController ==
    [loaded |-> TRUE, isTableEditorSelecting |-> FALSE, handlers |-> <<>>,
     timers |-> {}, events |-> {}, skipped |-> {}, handled |-> {}]

\* A select-* message arrives: the handler sets the flag and suspends at
\* await figma.getNodeByIdAsync
ReceiveSelectMessage ==
    /\ ctl.loaded
    /\ Len(ctl.handlers) < MaxSelectMessages
    /\ \E type \in SelectMessages :
           ctl' = [ctl EXCEPT
                      !.isTableEditorSelecting = TRUE,
                      !.handlers = Append(@, [type |-> type, stage |-> "awaiting"])]
    /\ UNCHANGED <<pc, op, text, opts, res, delim, valid, cells, aligns, rowRes,
                   cellRes, multi, partial, detected, hook>>

\* A suspended handler resumes: with a valid node it changes the selection,
\* which posts a selectionchange event; otherwise it throws; in both cases
\* the finally block sets the reset timer
ResumeSelectHandler ==
    /\ ctl.loaded
    /\ \E h \in 1..Len(ctl.handlers), validNode \in BOOLEAN :
           /\ ctl.handlers[h].stage = "awaiting"
           /\ ctl' = [ctl EXCEPT
                         !.handlers[h].stage =
                             IF validNode THEN "selected" ELSE "failed",
                         !.events = IF validNode THEN @ \cup {h} ELSE @,
                         !.timers = @ \cup {h}]
    /\ UNCHANGED <<pc, op, text, opts, res, delim, valid, cells, aligns, rowRes,
                   cellRes, multi, partial, detected, hook>>

\* The selectionchange listener runs for the event of handler h: it returns
\* at once if the flag is set, and handles the event otherwise
SelectionChangeListener ==
    /\ ctl.loaded
    /\ \E h \in ctl.events :
           ctl' = [ctl EXCEPT
                      !.events = @ \ {h},
                      !.skipped = IF ctl.isTableEditorSelecting THEN @ \cup {h} ELSE @,
                      !.handled = IF ctl.isTableEditorSelecting THEN @ ELSE @ \cup {h}]
    /\ UNCHANGED <<pc, op, text, opts, res, delim, valid, cells, aligns, rowRes,
                   cellRes, multi, partial, detected, hook>>

\* The reset timer of handler h fires: isTableEditorSelecting = false
ResetTimerFires ==
    /\ ctl.loaded
    /\ \E h \in ctl.timers :
           /\ h \notin ctl.events
           /\ ctl' = [ctl EXCEPT !.isTableEditorSelecting = FALSE,
                                 !.timers = @ \ {h}]
    /\ UNCHANGED <<pc, op, text, opts, res, delim, valid, cells, aligns, rowRes,
                   cellRes, multi, partial, detected, hook>>

NextController ==
    \/ ReceiveSelectMessage
    \/ ResumeSelectHandler
    \/ SelectionChangeListener
    \/ ResetTimerFires

InitController ==
    /\ pc = "idle"
    /\ op = "none"
    /\ text = <<>>
    /\ opts = DefaultOptions
    /\ res = NoResult
    /\ delim = ","
    /\ valid = FALSE
    /\ cells = <<>>
    /\ aligns = <<>>
    /\ rowRes = NoRow
    /\ cellRes = NoCell
    /\ multi = <<>>
    /\ partial = NoPartial
    /\ detected = "none"
    /\ hook = NoHook
    /\ ctl = LoadedController

SpecController == InitController /\ [][NextController]_vars

\* The two format detections
NextDetect == CallDetectFormat \/ CallDetectFormatFromText

SpecDetect == InitFn /\ [][NextDetect]_vars

\* The multi-table entry point of the Markdown parser
NextMulti == CallParseMultipleTables

SpecMulti == Init /\ [][NextMulti]_vars

\* The cell classifier of the Markdown parser
NextCell == CallParseTextFormatting \/ CallParsePartialFormatting

SpecCell == InitFn /\ [][NextCell]_vars

(***************************************************************************)
(* Properties of the parse entry points (specification Spec).              *)
(***************************************************************************)
ParseOps == {"CSVParser.parse", "TSVParser.parse", "MarkdownParser.parse"}
DelimitedOps == {"CSVParser.parse", "TSVParser.parse"}

Returned == pc = "done" /\ op \in ParseOps

\* Text consists of whitespace only (or is empty)
WhitespaceOnly(t) == \A k \in 1..Len(t) : t[k] \in {" ", TAB, NL}

\* C1: in every result of CSVParser.parse, TSVParser.parse and
\* MarkdownParser.parse, rowCount is the number of rows of data and
\* columnCount is the length of the first row of data, or 0 if data is empty,
\* also when rows were dropped with errors.
C1_CountsMatchData ==
    Returned =>
        /\ res.rowCount = Len(res.data)
        /\ res.columnCount = (IF Len(res.data) > 0 THEN Len(res.data[1]) ELSE 0)

\* C1 witness: a result in which a row was dropped with an error and at
\* least one row remains.
C1_Witness ==
    /\ Returned
    /\ \E k \in 1..Len(res.errors) : res.errors[k].code = "COLUMN_LIMIT_EXCEEDED"
    /\ Len(res.data) >= 1

\* C1 witness for ragged data: the first row is shorter than the last one.
C1_RaggedWitness ==
    /\ Returned
    /\ Len(res.data) >= 2
    /\ Len(res.data[1]) < Len(res.data[Len(res.data)])

\* C2: for every parser and whatever the options, an empty or whitespace-only
\* text yields data = [], exactly one error, EMPTY_DATA at line 1, and
\* rowCount = columnCount = 0.
C2_EmptyInput ==
    (Returned /\ WhitespaceOnly(text)) =>
        /\ res.data = <<>>
        /\ res.errors = <<[line |-> 1, code |-> "EMPTY_DATA"]>>
        /\ res.rowCount = 0
        /\ res.columnCount = 0

\* C2 witness: a non-empty whitespace-only text parsed with non-default options.
C2_Witness ==
    /\ Returned
    /\ Len(text) >= 2
    /\ WhitespaceOnly(text)
    /\ opts # DefaultOptions
    /\ res.errors = <<[line |-> 1, code |-> "EMPTY_DATA"]>>

\* The lines array the parse loop of the called parser iterates over
LoopLines ==
    IF op = "MarkdownParser.parse" THEN MarkdownLines(text)
    ELSE NonBlank(Split(text, NL))

\* The cells each line of the lines array tokenizes to
Tokenized(lines) ==
    [k \in 1..Len(lines) |->
        IF op = "MarkdownParser.parse"
        THEN ParseTableRow(lines[k], opts.trimWhitespace)
        ELSE ParseLine(lines[k], delim, opts.trimWhitespace)]

\* Line k is a row candidate: every line for the delimited parsers; for
\* Markdown, a table row other than the consumed separator.
Candidate(lines, k) ==
    op = "MarkdownParser.parse" =>
        /\ IsTableRow(lines[k])
        /\ ~(res.hasHeader /\ k = 2)

\* Line k is reached by the loop before the row cap stops it: the delimited
\* parsers read the first maxRows lines; the Markdown parser scans until
\* maxRows rows have been emitted, that is, while fewer than maxRows of the
\* candidates before line k fit in maxColumns.
Reached(lines, toks, k) ==
    IF op = "MarkdownParser.parse"
    THEN Cardinality({j \in 1..(k - 1) :
             Candidate(lines, j) /\ Len(toks[j]) <= opts.maxColumns})
         < opts.maxRows
    ELSE k <= opts.maxRows

ErrorsAt(k) == {e \in 1..Len(res.errors) : res.errors[e].line = k}
RowsFrom(k) == {r \in 1..Len(res.src) : res.src[r] = k}

\* C3: a row that tokenizes to more than maxColumns cells adds exactly one
\* COLUMN_LIMIT_EXCEEDED error and is absent from data (not truncated), every
\* row of data has at most maxColumns cells, and every other row the loop
\* reaches, before or after a dropped one, is in data with all its cells.
C3_ColumnOverflowDropsRow ==
    (Returned /\ ~WhitespaceOnly(text)) =>
        LET lines == LoopLines
            toks == Tokenized(lines)
        IN  /\ \A r \in 1..Len(res.data) : Len(res.data[r]) <= opts.maxColumns
            /\ \A k \in 1..Len(lines) :
                (Candidate(lines, k) /\ Reached(lines, toks, k)) =>
                    IF Len(toks[k]) > opts.maxColumns
                    THEN /\ RowsFrom(k) = {}
                         /\ Cardinality(ErrorsAt(k)) = 1
                         /\ \A e \in ErrorsAt(k) :
                                res.errors[e].code = "COLUMN_LIMIT_EXCEEDED"
                    ELSE /\ ErrorsAt(k) = {}
                         /\ Cardinality(RowsFrom(k)) = 1
                         /\ \A r \in RowsFrom(k) : res.data[r] = toks[k]

\* C3 witness: the Markdown parser dropped line 2 for its column count and
\* emitted the rows of line 1 and line 3.
C3_Witness ==
    /\ pc = "done"
    /\ op = "MarkdownParser.parse"
    /\ res.errors = <<[line |-> 2, code |-> "COLUMN_LIMIT_EXCEEDED"]>>
    /\ res.src = <<1, 3>>

\* C3 witness for the delimited parser: line 2 dropped, lines 1 and 3 emitted.
C3_DelimitedWitness ==
    /\ pc = "done"
    /\ op \in DelimitedOps
    /\ res.errors = <<[line |-> 2, code |-> "COLUMN_LIMIT_EXCEEDED"]>>
    /\ res.src = <<1, 3>>

\* C4: maxRows caps the rows read: data has at most maxRows rows, and no data
\* row and no error comes from a line after the point where the cap is
\* reached (the delimited parsers read only the first maxRows non-blank lines,
\* the Markdown parser stops once maxRows rows have been emitted).
C4_MaxRowsCap ==
    (Returned /\ ~WhitespaceOnly(text)) =>
        /\ Len(res.data) <= opts.maxRows
        /\ \A r \in 1..Len(res.src) :
            IF op = "MarkdownParser.parse"
            THEN Cardinality({q \in 1..Len(res.src) : res.src[q] < res.src[r]})
                     < opts.maxRows
            ELSE res.src[r] <= opts.maxRows
        /\ \A e \in 1..Len(res.errors) :
            IF op = "MarkdownParser.parse"
            THEN Cardinality({q \in 1..Len(res.src) :
                                  res.src[q] < res.errors[e].line}) < opts.maxRows
            ELSE res.errors[e].line <= opts.maxRows

\* C4 witness: the Markdown parser stopped at the cap of one row while a
\* later line, which would have been dropped with an error, was never read.
C4_Witness ==
    /\ pc = "done"
    /\ op = "MarkdownParser.parse"
    /\ opts.maxRows = 1
    /\ opts.maxColumns = 1
    /\ Len(res.data) = 1
    /\ res.errors = <<>>
    /\ \E k \in 2..Len(LoopLines) :
        IsTableRow(LoopLines[k]) /\ Len(Tokenized(LoopLines)[k]) > 1

\* C4 witness for the delimited parser: more non-blank lines than maxRows.
C4_DelimitedWitness ==
    /\ pc = "done"
    /\ op \in DelimitedOps
    /\ opts.maxRows = 1
    /\ Len(LoopLines) >= 2
    /\ Len(res.data) + Len(res.errors) = 1

(***************************************************************************)
(* Properties of CSVParser.parseLine (specification SpecFn).               *)
(***************************************************************************)
RECURSIVE RefScan(_, _, _, _)
\* The reference scan: the cells of the rest of a line, given the quoted
\* mode and the cell text read so far
RefScan(rest, d, quoted, cur) ==
    IF rest = <<>> THEN <<cur>>
    ELSE IF Head(rest) = QUOTE /\ quoted /\ Len(rest) >= 2 /\ rest[2] = QUOTE
    THEN RefScan(Tail(Tail(rest)), d, TRUE, Append(cur, QUOTE))
    ELSE IF Head(rest) = QUOTE
    THEN RefScan(Tail(rest), d, ~quoted, cur)
    ELSE IF Head(rest) = d /\ ~quoted
    THEN <<cur>> \o RefScan(Tail(rest), d, FALSE, <<>>)
    ELSE RefScan(Tail(rest), d, quoted, Append(cur, Head(rest)))

\* Position i of the line is outside quoted mode: an even number of double
\* quotes precedes it (a doubled quote adds two)
OutsideQuotes(line, i) ==
    Cardinality({j \in 1..(i - 1) : line[j] = QUOTE}) % 2 = 0

UnquotedDelimiters(line, d) ==
    Cardinality({i \in 1..Len(line) : line[i] = d /\ OutsideQuotes(line, i)})

Example1Cells == <<<<"a">>, <<"b", ",", "c">>, <<"d">>>>
Example2Cells == <<<<"a">>, <<"s", "a", "y", " ", QUOTE, "h", "i", QUOTE>>, <<"c">>>>

\* C5: parseLine equals the reference scan (a double quote toggles quoted
\* mode and is not copied, a doubled quote in quoted mode is one literal
\* quote, a quoted delimiter is literal, an unquoted delimiter ends the cell;
\* each cell trimmed when trimWhitespace is set), so the number of cells is
\* 1 + the number of delimiters outside quoted mode; a,"b,c",d gives
\* [a, b,c, d] and a,"say ""hi""",c gives [a, say "hi", c].
C5_ParseLineIsReferenceScan ==
    (pc = "done" /\ op = "CSVParser.parseLine") =>
        LET ref == RefScan(text, delim, FALSE, <<>>)
        IN  /\ cells = [k \in 1..Len(ref) |->
                           IF opts.trimWhitespace THEN Trim(ref[k]) ELSE ref[k]]
            /\ Len(cells) = 1 + UnquotedDelimiters(text, delim)
            /\ (text = ExampleLine1 /\ delim = ",") => cells = Example1Cells
            /\ (text = ExampleLine2 /\ delim = ",") => cells = Example2Cells

\* C5 witness: the line a,"say ""hi""",c was tokenized to [a, say "hi", c].
C5_Witness ==
    /\ pc = "done"
    /\ op = "CSVParser.parseLine"
    /\ text = ExampleLine2
    /\ delim = ","
    /\ cells = Example2Cells

\* C5 witness for a quoted delimiter: a,"b,c",d gives three cells.
C5_QuotedDelimiterWitness ==
    /\ pc = "done"
    /\ op = "CSVParser.parseLine"
    /\ text = ExampleLine1
    /\ delim = ","
    /\ cells = Example1Cells

(***************************************************************************)
(* Properties of TSVParser.parse (specification SpecDelim).                *)
(***************************************************************************)
\* The text with every tab replaced by a comma
TabsToCommas(t) == [i \in 1..Len(t) |-> IF t[i] = TAB THEN "," ELSE t[i]]

\* The result has the data, hasHeader, errors and counts of CSVParser(',')
\* on the text with tabs replaced by commas, and format 'tsv'
SameAsCSVOnCommas ==
    LET c == CSVParse(",", TabsToCommas(text), opts)
    IN  /\ res.data = c.data
        /\ res.hasHeader = c.hasHeader
        /\ res.errors = c.errors
        /\ res.rowCount = c.rowCount
        /\ res.columnCount = c.columnCount
        /\ res.format = "tsv"

\* Every tab of the text is a cell delimiter: no whitespace-only line
\* contains a tab, and no tab is in quoted mode of its line
TabsAreDelimiters(t) ==
    LET lines == Split(t, NL)
    IN  \A k \in 1..Len(lines) :
            /\ Includes(lines[k], TAB) => ~WhitespaceOnly(lines[k])
            /\ \A i \in 1..Len(lines[k]) :
                   lines[k][i] = TAB => OutsideQuotes(lines[k], i)

\* C6 as stated: for every text without a comma, TSVParser.parse returns the
\* data, hasHeader and errors of CSVParser(',').parse on the text with tabs
\* replaced by commas, and differs only in metadata.format, which is 'tsv'.
C6_AsStated ==
    (pc = "done" /\ op = "TSVParser.parse" /\ ~Includes(text, ",")) =>
        SameAsCSVOnCommas

\* C6 amended: the same, for every text without a comma in which every tab is
\* a cell delimiter (no whitespace-only line contains a tab and no tab is
\* inside a quoted section).
C6_TSVIsCSVWithTabs ==
    (pc = "done" /\ op = "TSVParser.parse" /\ ~Includes(text, ",")
        /\ TabsAreDelimiters(text)) =>
        SameAsCSVOnCommas

\* C6 witness: a text whose tabs are delimiters was split into two rows of
\* at least two cells by TSVParser.parse.
C6_Witness ==
    /\ pc = "done"
    /\ op = "TSVParser.parse"
    /\ Includes(text, TAB)
    /\ TabsAreDelimiters(text)
    /\ Len(res.data) = 2
    /\ Len(res.data[1]) >= 2

(***************************************************************************)
(* Properties of validate (specification SpecFn).                          *)
(***************************************************************************)
\* C7: for a delimited parser with delimiter d (CSVParser constructed with
\* ',' or with tab, and TSVParser), validate(text) is true if and only if
\* the text is non-blank and some non-blank line contains d.
C7_ValidateIffDelimiterOnNonBlankLine ==
    (pc = "done" /\ op \in {"CSVParser.validate", "TSVParser.validate"}) =>
        (valid <=>
            /\ ~WhitespaceOnly(text)
            /\ \E k \in 1..Len(Split(text, NL)) :
                   /\ ~WhitespaceOnly(Split(text, NL)[k])
                   /\ Includes(Split(text, NL)[k], delim))

(***************************************************************************)
(* Properties of the Markdown header detection (SpecMd and SpecFn).        *)
(***************************************************************************)
\* C8: MarkdownParser.parse returns hasHeader = true if and only if the
\* hasHeader option is true and the second non-blank line of the extracted
\* table block is a separator line; then that line is consumed (no row of
\* data and no error comes from it); otherwise alignments is empty.
C8_HeaderIffSeparatorAtLine2 ==
    (pc = "done" /\ op = "MarkdownParser.parse") =>
        LET lines == MarkdownLines(text)
            separatorAt2 == Len(lines) >= 2 /\ IsSeparatorLine(lines[2])
        IN  /\ res.hasHeader <=> (opts.hasHeader /\ separatorAt2)
            /\ res.hasHeader => (RowsFrom(2) = {} /\ ErrorsAt(2) = {})
            /\ ~res.hasHeader => res.alignments = <<>>

\* C8 witness: a header line, a consumed separator and a following row.
C8_Witness ==
    /\ pc = "done"
    /\ op = "MarkdownParser.parse"
    /\ res.hasHeader
    /\ res.src = <<1, 3>>
    /\ res.errors = <<>>

\* C8 witness for the other case: the option is false, line 2 is a
\* separator line and is emitted as a row.
C8_NoHeaderWitness ==
    /\ pc = "done"
    /\ op = "MarkdownParser.parse"
    /\ ~opts.hasHeader
    /\ Len(MarkdownLines(text)) >= 2
    /\ IsSeparatorLine(MarkdownLines(text)[2])
    /\ RowsFrom(2) # {}

\* The positions of the pipes of a line, in increasing order
PipePositions(t) ==
    LET P == {i \in 1..Len(t) : t[i] = PIPE}
    IN  [k \in 1..Cardinality(P) |->
            CHOOSE i \in P : Cardinality({j \in P : j < i}) = k - 1]

\* The first (last) character of the cell that is not a blank is a colon
LeadingColon(cell) ==
    \E i \in 1..Len(cell) :
        cell[i] = ":" /\ \A j \in 1..(i - 1) : IsWs(cell[j])
TrailingColon(cell) ==
    \E i \in 1..Len(cell) :
        cell[i] = ":" /\ \A j \in (i + 1)..Len(cell) : IsWs(cell[j])

ExpectedAlignment(cell) ==
    IF LeadingColon(cell) /\ TrailingColon(cell) THEN "center"
    ELSE IF TrailingColon(cell) THEN "right"
    ELSE "left"

\* C9: each cell of the consumed separator line maps to one alignment, in
\* column order: leading and trailing colon give center, trailing colon only
\* gives right, every other cell (leading colon only included) gives left;
\* |:---|:---:|---:| yields [left, center, right].
C9_AlignmentMapping ==
    (pc = "done" /\ op = "MarkdownParser.parseAlignments" /\ valid) =>
        LET pipes == PipePositions(text)
        IN  /\ Len(aligns) = Len(pipes) - 1
            /\ \A k \in 1..Len(aligns) :
                   aligns[k] =
                       ExpectedAlignment(SubSeq(text, pipes[k] + 1, pipes[k + 1] - 1))
            /\ text = ExampleSeparator => aligns = <<"left", "center", "right">>

\* C9 witness: the separator |:---|:---:|---:| was mapped.
C9_Witness ==
    /\ pc = "done"
    /\ op = "MarkdownParser.parseAlignments"
    /\ valid
    /\ text = ExampleSeparator
    /\ aligns = <<"left", "center", "right">>

\* C10: when alignments are derived from a separator and at least one row is
\* emitted, alignments has the length of data[0]: padded on the right with
\* 'left' or truncated, the kept prefix being the separator's alignments.
C10_AlignmentsFitFirstRow ==
    (pc = "done" /\ op = "MarkdownParser.parse" /\ res.hasHeader
        /\ Len(res.data) > 0) =>
        LET derived == ParseAlignments(MarkdownLines(text)[2])
        IN  /\ Len(res.alignments) = Len(res.data[1])
            /\ \A k \in 1..Len(res.alignments) :
                   res.alignments[k] =
                       (IF k <= Len(derived) THEN derived[k] ELSE "left")

\* C10 witness: a one-cell separator under a two-cell first row, padded.
C10_Witness ==
    /\ pc = "done"
    /\ op = "MarkdownParser.parse"
    /\ res.hasHeader
    /\ Len(res.data) > 0
    /\ Len(ParseAlignments(MarkdownLines(text)[2])) = 1
    /\ res.alignments = <<"right", "left">>

\* C10 witness for truncation: a two-cell separator over a one-cell first row.
C10_TruncatedWitness ==
    /\ pc = "done"
    /\ op = "MarkdownParser.parse"
    /\ res.hasHeader
    /\ Len(res.data) > 0
    /\ ParseAlignments(MarkdownLines(text)[2]) = <<"left", "right">>
    /\ res.alignments = <<"left">>

(***************************************************************************)
(* Properties of the Markdown row tokenizer (specification SpecRow).       *)
(***************************************************************************)
RECURSIVE SinglePass(_, _, _)
\* Reference tokenization of a row content, one pass from left to right: a
\* backslash followed by a pipe or a backslash stands for that character, a
\* pipe that is not escaped ends the cell, every other character is literal.
SinglePass(rest, cur, acc) ==
    IF rest = <<>> THEN Append(acc, cur)
    ELSE IF Head(rest) = BACKSLASH /\ Len(rest) >= 2
            /\ rest[2] \in {PIPE, BACKSLASH}
    THEN SinglePass(Tail(Tail(rest)), Append(cur, rest[2]), acc)
    ELSE IF Head(rest) = PIPE THEN SinglePass(Tail(rest), <<>>, Append(acc, cur))
    ELSE SinglePass(Tail(rest), Append(cur, Head(rest)), acc)

\* The cells of a row under single-pass unescaping, trimmed on request
SinglePassCells(line, trimWhitespace) ==
    LET raw == SinglePass(SliceInner(Trim(line)), <<>>, <<>>)
    IN  [k \in 1..Len(raw) |-> IF trimWhitespace THEN Trim(raw[k]) ELSE raw[k]]

RowTokenized == pc = "done" /\ op = "MarkdownParser.parseTableRowWithFormatting"

\* C11: the row tokenizer applies the escapes exactly once: the emitted cell
\* texts are the cells of the single-pass unescaping of the row, where each
\* source pair \| gives one pipe and each source pair \\ gives one backslash.
C11_EscapesAppliedOnce ==
    RowTokenized => rowRes.row = SinglePassCells(text, opts.trimWhitespace)

(***************************************************************************)
(* Properties of the cell formats of a parse (specification SpecMd).       *)
(***************************************************************************)
MarkdownParsed == pc = "done" /\ op = "MarkdownParser.parse"

\* C12: in every result of MarkdownParser.parse, cellFormats has the shape of
\* data (as many rows, and in each row as many entries, also when rows were
\* dropped or skipped), and every data cell is the text of its format.
C12_CellFormatsMirrorData ==
    MarkdownParsed =>
        /\ Len(res.cellFormats) = Len(res.data)
        /\ \A r \in 1..Len(res.data) :
            /\ Len(res.cellFormats[r]) = Len(res.data[r])
            /\ \A c \in 1..Len(res.data[r]) :
                res.data[r][c] = res.cellFormats[r][c].text

\* C12 witness: a parse that dropped a row for its column count and emitted a
\* row that starts with a bold cell, whose text "a" is not its source "**a**".
C12_Witness ==
    /\ MarkdownParsed
    /\ res.errors # <<>>
    /\ \E r \in 1..Len(res.data) :
        /\ "isBold" \in DOMAIN res.cellFormats[r][1]
        /\ res.data[r][1] = <<"a">>

(***************************************************************************)
(* Properties of the cell classifier (specification SpecCell).  The cells  *)
(* of CellTexts hold no backslash, so a cell is its own unescaped text.    *)
(***************************************************************************)
CellClassified == pc = "done" /\ op = "MarkdownParser.parseTextFormatting"

\* s[from..to] holds no character c
Without(s, c, from, to) == \A k \in from..to : s[k] # c

\* The whole cell is ![alt](url): alt without "]", url non-empty without ")"
ImageShape(s) ==
    \E p \in 3..(Len(s) - 3) :
        /\ s[1] = "!" /\ s[2] = "[" /\ s[p] = "]" /\ s[p + 1] = "("
        /\ s[Len(s)] = ")"
        /\ Without(s, "]", 3, p - 1)
        /\ Without(s, ")", p + 2, Len(s) - 1)

\* s[i..j] is [text](url): text non-empty without "]", url non-empty without ")"
LinkShapeAt(s, i, j) ==
    \E p \in (i + 2)..(j - 3) :
        /\ s[i] = "[" /\ s[p] = "]" /\ s[p + 1] = "(" /\ s[j] = ")"
        /\ Without(s, "]", i + 1, p - 1)
        /\ Without(s, ")", p + 2, j - 1)

LinkShape(s) == Len(s) >= 1 /\ LinkShapeAt(s, 1, Len(s))

\* The cell starts and ends with n markers of one kind, not sharing a marker
WrappedIn(s, n) ==
    /\ Len(s) >= 2 * n
    /\ \E c \in {"*", "_"} : \A k \in 1..n : s[k] = c /\ s[Len(s) + 1 - k] = c

\* core is a number: digits and commas with at least one digit, then
\* optionally a point and digits
NumberShape(core) ==
    \E d \in 1..(Len(core) + 1) :
        /\ d <= Len(core) => core[d] = "."
        /\ d > 1
        /\ \A k \in 1..(d - 1) : core[k] \in Digits \cup {","}
        /\ d <= Len(core) => d < Len(core)
        /\ \A k \in (d + 1)..Len(core) : core[k] \in Digits
        /\ \E k \in 1..Len(core) : core[k] \in Digits

\* The cell, without surrounding blanks, is a number with at most one of a
\* leading currency symbol, a trailing percent sign or a trailing unit
NumericShape(s) ==
    LET t == Trim(s)
    IN  \/ NumberShape(t)
        \/ t # <<>> /\ t[1] \in CurrencySymbols /\ NumberShape(Tail(t))
        \/ \E u \in Units \cup {<<"%">>} :
            /\ Len(t) > Len(u)
            /\ SubSeq(t, Len(t) - Len(u) + 1, Len(t)) = u
            /\ NumberShape(SubSeq(t, 1, Len(t) - Len(u)))

\* The cell holds a link, or a non-empty asterisk-free text between asterisks
InlineShape(s) ==
    \/ \E i, j \in 1..Len(s) : i < j /\ LinkShapeAt(s, i, j)
    \/ \E i, j \in 1..Len(s) :
        /\ i + 1 < j /\ s[i] = "*" /\ s[j] = "*"
        /\ Without(s, "*", i + 1, j - 1)

\* The first category a cell matches, in the order of the classifier
ExpectedCategory(s) ==
    IF ImageShape(s) THEN "image"
    ELSE IF LinkShape(s) THEN "link"
    ELSE IF WrappedIn(s, 3) THEN "bold+italic"
    ELSE IF WrappedIn(s, 2) THEN "bold"
    ELSE IF WrappedIn(s, 1) THEN "italic"
    ELSE IF NumericShape(s) THEN "numeric"
    ELSE IF InlineShape(s) THEN "segments"
    ELSE "plain"

\* The fields, besides text, a format of each category carries
CategoryFields(category) ==
    CASE category = "image" -> {{"isImage", "imageUrl", "imageAlt"}}
      [] category = "link" -> {{"isLink", "linkUrl"}}
      [] category = "bold+italic" -> {{"isBold", "isItalic"}}
      [] category = "bold" -> {{"isBold"}}
      [] category = "italic" -> {{"isItalic"}}
      [] category = "numeric" ->
             {{"isNumeric", "numericValue"}, {"isNumeric", "numericValue", "currency"},
              {"isNumeric", "numericValue", "unit"}}
      [] category = "segments" -> {{"segments"}}
      [] category = "plain" -> {{}}

Categories ==
    {"image", "link", "bold+italic", "bold", "italic", "numeric", "segments", "plain"}

\* The flags a format carries are all true
FlagsSet(f) ==
    \A k \in DOMAIN f \cap {"isImage", "isLink", "isBold", "isItalic", "isNumeric"} :
        f[k] = TRUE

\* C13: every cell is classified as exactly one category, its format carries
\* the fields of that category only, and the category is the first the cell
\* matches in the order image, link, bold+italic, bold, italic, numeric,
\* segmented, plain.
C13_OneCategoryFirstMatch ==
    CellClassified =>
        LET f == cellRes.format
            own == DOMAIN f \ {"text"}
        IN  /\ "text" \in DOMAIN f
            /\ Cardinality({c \in Categories : own \in CategoryFields(c)}) = 1
            /\ own \in CategoryFields(ExpectedCategory(text))
            /\ FlagsSet(f)

\* C13 witness: a cell that is wrapped in single asterisks and also holds an
\* inline span that ends before the closing asterisk, as in *a*a*, was
\* classified italic, the earlier category, and not segmented.
C13_Witness ==
    /\ CellClassified
    /\ WrappedIn(text, 1) /\ ~WrappedIn(text, 2)
    /\ InlineShape(SubSeq(text, 1, Len(text) - 1))
    /\ DOMAIN cellRes.format = {"text", "isItalic"}

\* The number of markers of the strongest wrap of a cell (3, 2, 1), 0 if none
WrapLevel(s) ==
    IF WrappedIn(s, 3) THEN 3
    ELSE IF WrappedIn(s, 2) THEN 2
    ELSE IF WrappedIn(s, 1) THEN 1
    ELSE 0

\* The inner text of a wrapped cell: the cell without its n markers on each side
InnerText(s, n) == SubSeq(s, n + 1, Len(s) - n)

\* C14: for a cell wrapped in emphasis markers, asterisks or underscores, the
\* display text is the inner text with the markers stripped on both sides, with
\* isBold and isItalic for three markers, isBold only for two and isItalic only
\* for one.
C14_EmphasisStripsMarkers ==
    (CellClassified /\ WrapLevel(text) > 0) =>
        LET n == WrapLevel(text)
        IN  /\ cellRes.text = InnerText(text, n)
            /\ cellRes.format.text = InnerText(text, n)
            /\ ("isBold" \in DOMAIN cellRes.format) = (n \in {2, 3})
            /\ ("isItalic" \in DOMAIN cellRes.format) = (n \in {1, 3})

\* s[i..] starts with an emphasis span of n asterisks on each side around a
\* non-empty text without asterisk that ends at the asterisk s[j]
SpanAt(s, i, j, n) ==
    /\ j + n - 1 <= Len(s)
    /\ j > i + n
    /\ \A k \in 0..(n - 1) : s[i + k] = "*" /\ s[j + k] = "*"
    /\ Without(s, "*", i + n, j - 1)

RECURSIVE Unmarked(_, _)
\* s without the markers of its emphasis spans of n asterisks, leftmost first
Unmarked(s, n) ==
    LET spans == {ij \in (1..Len(s)) \X (1..Len(s)) : SpanAt(s, ij[1], ij[2], n)}
    IN  IF spans = {} THEN s
        ELSE LET ij == CHOOSE x \in spans : \A y \in spans : x[1] <= y[1]
             IN  SubSeq(s, 1, ij[1] - 1) \o SubSeq(s, ij[1] + n, ij[2] - 1)
                     \o Unmarked(SubSeq(s, ij[2] + n, Len(s)), n)

\* A link text with its ***..***, then **..**, then *..* markup removed
WithoutMarkup(linkText) == Unmarked(Unmarked(Unmarked(linkText, 3), 2), 1)

\* The position of the "]" that ends the text of the link s[i..j]
TextEnd(s, i, j) ==
    CHOOSE p \in (i + 2)..(j - 3) :
        /\ s[p] = "]" /\ s[p + 1] = "("
        /\ Without(s, "]", i + 1, p - 1)
        /\ Without(s, ")", p + 2, j - 1)

RECURSIVE LinkSpans(_, _)
\* The links of a cell from index i on, leftmost first, as display text and url
LinkSpans(s, i) ==
    LET found == {ij \in (i..Len(s)) \X (i..Len(s)) : LinkShapeAt(s, ij[1], ij[2])}
    IN  IF found = {} THEN <<>>
        ELSE LET ij == CHOOSE x \in found : \A y \in found : x[1] <= y[1]
                 p == TextEnd(s, ij[1], ij[2])
             IN  <<[text |-> WithoutMarkup(SubSeq(s, ij[1] + 1, p - 1)),
                    linkUrl |-> SubSeq(s, p + 2, ij[2] - 1)]>>
                 \o LinkSpans(s, ij[2] + 1)

\* The link segments of a segmented format, in order
LinkSegments(f) ==
    SelectSeq(f.segments, LAMBDA seg : "isLink" \in DOMAIN seg /\ seg.isLink)

\* C15: a cell that is exactly one link has isLink with linkUrl = url, the
\* link text without its emphasis markup as display text, and neither isBold
\* nor isItalic; and the link segments of a segmented cell are, in order, the
\* links of the cell, each with its url and stripped text and without isBold
\* or isItalic.
C15_LinksStripMarkup ==
    CellClassified =>
        LET f == cellRes.format
        IN  /\ LinkShape(text) =>
                /\ DOMAIN f = {"text", "isLink", "linkUrl"}
                /\ f.isLink
                /\ <<[text |-> cellRes.text, linkUrl |-> f.linkUrl]>>
                       = LinkSpans(text, 1)
                /\ f.text = cellRes.text
            /\ "segments" \in DOMAIN f =>
                LET ls == LinkSegments(f)
                IN  /\ [k \in 1..Len(ls) |->
                           [text |-> ls[k].text, linkUrl |-> ls[k].linkUrl]]
                           = LinkSpans(text, 1)
                    /\ \A k \in 1..Len(ls) :
                           DOMAIN ls[k] = {"text", "start", "end", "isLink", "linkUrl"}
                    /\ \A k \in 1..Len(f.segments) :
                           "linkUrl" \in DOMAIN f.segments[k]
                               => f.segments[k].isLink

\* C15 witness: a cell that is one link whose text was bold, shown without
\* the asterisks.
C15_Witness ==
    /\ CellClassified
    /\ LinkShape(text)
    /\ cellRes.format.isLink
    /\ Len(cellRes.text) + 4 = TextEnd(text, 1, Len(text)) - 2

\* C15 witness for segments: a segmented cell with a link segment after a
\* bold segment.
C15_SegmentWitness ==
    /\ CellClassified
    /\ "segments" \in DOMAIN cellRes.format
    /\ \E k \in 2..Len(cellRes.format.segments) :
        /\ "linkUrl" \in DOMAIN cellRes.format.segments[k]
        /\ "isBold" \in DOMAIN cellRes.format.segments[1]

PartialParsed == pc = "done" /\ op = "MarkdownParser.parsePartialFormatting"

\* Two patterns share a source offset
Overlap(a, b) == a.start < b.end /\ b.start < a.end

\* C16: the spans accepted by the partial-formatting detection are pairwise
\* non-overlapping in source offsets, wherever in its range a match meets an
\* already accepted span.
C16_AcceptedSpansDisjoint ==
    PartialParsed =>
        \A a, b \in 1..Len(partial.patterns) :
            a # b => ~Overlap(partial.patterns[a], partial.patterns[b])

\* A segment carries a formatting: bold, italic or link
Formatted(seg) ==
    \/ "isBold" \in DOMAIN seg /\ seg.isBold
    \/ "isItalic" \in DOMAIN seg /\ seg.isItalic
    \/ "isLink" \in DOMAIN seg /\ seg.isLink

\* C17: the segments of a format tile its display text in order: the first
\* starts at 0, each spans the length of its text, each starts where the
\* previous one ends, the last ends at the length of format.text, and each
\* segment's text is that stretch of format.text; segments is never empty and
\* never a single unformatted segment.
C17_SegmentsTileText ==
    (CellClassified /\ "segments" \in DOMAIN cellRes.format) =>
        LET f == cellRes.format
            segs == f.segments
        IN  /\ Len(segs) >= 1
            /\ segs[1].start = 0
            /\ \A k \in 1..Len(segs) :
                /\ segs[k].end - segs[k].start = Len(segs[k].text)
                /\ k < Len(segs) => segs[k + 1].start = segs[k].end
                /\ SubSeq(f.text, segs[k].start + 1, segs[k].end) = segs[k].text
            /\ segs[Len(segs)].end = Len(f.text)
            /\ ~(Len(segs) = 1 /\ ~Formatted(segs[1]))

\* C17 witness: a format of text, a bold span, text and a link, whose display
\* text is shorter than the source cell.
C17_Witness ==
    /\ CellClassified
    /\ "segments" \in DOMAIN cellRes.format
    /\ Len(cellRes.format.segments) >= 3
    /\ \E k \in 2..Len(cellRes.format.segments) :
        /\ cellRes.format.segments[k].start > 0
        /\ Formatted(cellRes.format.segments[k])
        /\ ~Formatted(cellRes.format.segments[k - 1])
    /\ Len(cellRes.format.text) < Len(text)

\* C17 witness for the single unformatted segment: a cell with an asterisk and
\* a bracket but no span was returned as plain text, without segments.
C17_PlainWitness ==
    /\ CellClassified
    /\ DOMAIN cellRes.format = {"text"}
    /\ Includes(text, "*") /\ Includes(text, "[")

RECURSIVE IntOf(_)
\* The integer written by a string of digits (0 for the empty string)
IntOf(ds) ==
    IF ds = <<>> THEN 0
    ELSE 10 * IntOf(SubSeq(ds, 1, Len(ds) - 1))
             + (CHOOSE d \in 0..9 : ToString(d) = ds[Len(ds)])

RECURSIVE Pow10(_)
Pow10(k) == IF k = 0 THEN 1 ELSE 10 * Pow10(k - 1)

\* The number of digits after the point of a number
FractionLength(core) ==
    IF Includes(core, ".")
    THEN Len(core) - (CHOOSE d \in 1..Len(core) : core[d] = ".")
    ELSE 0

\* v is the number core writes once its commas are removed: v.num / 10^v.scale
\* equals its digits / 10^(digits after the point), in lowest decimal terms
SameNumber(v, core) ==
    LET digits == SelectSeq(core, LAMBDA c : c \in Digits)
        k == FractionLength(core)
    IN  /\ DOMAIN v = {"num", "scale"}
        /\ v.scale \in 0..k
        /\ v.num * Pow10(k - v.scale) = IntOf(digits)
        /\ v.scale > 0 => v.num % 10 # 0

\* f is a numeric format with exactly the extra fields and the value of core
NumericWith(f, extra, core) ==
    /\ DOMAIN f = {"text", "isNumeric", "numericValue"} \cup extra
    /\ f.isNumeric
    /\ SameNumber(f.numericValue, core)

\* s without its last n characters
Front(s, n) == SubSeq(s, 1, Len(s) - n)

\* s ends with u after at least one other character
Suffixed(s, u) == Len(s) > Len(u) /\ SubSeq(s, Len(s) - Len(u) + 1, Len(s)) = u

\* C18: a cell that is a number of digits and grouping commas with an optional
\* decimal part is numeric with the value of the number without its commas:
\* after a currency symbol with that currency and no unit, before a percent
\* sign with unit %, before a unit with that unit, bare with neither ($1,200
\* gives currency $ and value 1200); and a numeric format always holds a
\* numericValue that is a number, on a cell of one of these shapes.
C18_NumericClassification ==
    CellClassified =>
        LET f == cellRes.format
        IN  /\ NumberShape(text) => NumericWith(f, {}, text)
            /\ (text # <<>> /\ text[1] \in CurrencySymbols /\ NumberShape(Tail(text)))
                   => NumericWith(f, {"currency"}, Tail(text)) /\ f.currency = text[1]
            /\ (Suffixed(text, <<"%">>) /\ NumberShape(Front(text, 1)))
                   => NumericWith(f, {"unit"}, Front(text, 1)) /\ f.unit = <<"%">>
            /\ \A u \in Units :
                   (Suffixed(text, u) /\ NumberShape(Front(text, Len(u))))
                       => NumericWith(f, {"unit"}, Front(text, Len(u))) /\ f.unit = u
            /\ text = CurrencyExample =>
                   f.currency = "$" /\ f.numericValue = [num |-> 1200, scale |-> 0]
            /\ "isNumeric" \in DOMAIN f =>
                   /\ f.isNumeric
                   /\ "numericValue" \in DOMAIN f
                   /\ f.numericValue # NaN
                   /\ NumericShape(text)
                   /\ f.text = text

\* C18 witness: the cell $1,200 was classified numeric with currency $ and
\* value 1200.
C18_Witness ==
    /\ CellClassified
    /\ text = CurrencyExample
    /\ cellRes.format.isNumeric
    /\ cellRes.format.currency = "$"
    /\ cellRes.format.numericValue = [num |-> 1200, scale |-> 0]

\* C18 witness for the decimal part and the unit: a measure in kg whose value
\* has one digit after the point.
C18_UnitWitness ==
    /\ CellClassified
    /\ "unit" \in DOMAIN cellRes.format
    /\ cellRes.format.unit = <<"k", "g">>
    /\ cellRes.format.numericValue.scale = 1

\* C18 witness for the NaN guard: a cell of commas only matches the number
\* pattern but is not numeric.
C18_CommasWitness ==
    /\ CellClassified
    /\ text = <<",", ",">>
    /\ DOMAIN cellRes.format = {"text"}

(***************************************************************************)
(* Table blocks of a document: the lines between two lines of prose, from  *)
(* the first table line on.                                                *)
(***************************************************************************)
MultiParsed == pc = "done" /\ op = "MarkdownParser.parseMultipleTables"

TableLine(line) == IsTableRow(Trim(line)) \/ IsSeparatorLine(Trim(line))

Prose(line) == ~TableLine(line) /\ Trim(line) # <<>>

BlockStarts(lines) ==
    {i \in 1..Len(lines) :
        /\ TableLine(lines[i])
        /\ \A j \in 1..(i - 1) :
               TableLine(lines[j]) => \E p \in (j + 1)..(i - 1) : Prose(lines[p])}

BlockEnd(lines, i) ==
    LET after == {p \in (i + 1)..Len(lines) : Prose(lines[p])}
    IN  IF after = {} THEN Len(lines)
        ELSE (CHOOSE p \in after : \A q \in after : p <= q) - 1

BlocksOf(lines) ==
    LET starts == BlockStarts(lines)
    IN  [k \in 1..Cardinality(starts) |->
            LET i == CHOOSE s \in starts :
                         Cardinality({j \in starts : j < s}) = k - 1
            IN  Join(SubSeq(lines, i, BlockEnd(lines, i)), NL)]

\* The table blocks of the document, in document order
Blocks == BlocksOf(Split(text, NL))

\* What parse returns for each block alone, as entries of multipleTablesData
BlockEntries ==
    LET blocks == Blocks
    IN  [k \in 1..Len(blocks) |-> TableEntry(MarkdownParse(blocks[k], opts))]

EntryHasRows(e) == Len(e.data) > 0

\* C19 as stated: multipleTablesData has one entry per table block, in
\* document order, holding what parse returns for that block alone.
C19_OneEntryPerBlock == MultiParsed => multi = BlockEntries

\* C19, amended: with two or more table blocks, multipleTablesData holds, in
\* document order, what parse returns for each block for which parse returns
\* at least one data row, and nothing for the other blocks; with one block it
\* holds the entry of that block, whatever its data.
C19_OneEntryPerBlockWithRows ==
    MultiParsed =>
        LET entries == BlockEntries
        IN  multi = IF Len(entries) >= 2 THEN SelectSeq(entries, EntryHasRows)
                    ELSE entries

\* Three blocks, the second dropped because all its rows exceed maxColumns
C19_Witness ==
    /\ MultiParsed
    /\ Len(Blocks) = 3
    /\ Len(multi) = 2
    /\ ~EntryHasRows(BlockEntries[2])

\* Two blocks kept, with different data
C19_BothKeptWitness ==
    /\ MultiParsed
    /\ Len(Blocks) = 2
    /\ Len(multi) = 2
    /\ multi[1].data # multi[2].data
    /\ multi[2].cellFormats # <<>>

\* The data-bearing fields of a parse result and its metadata
ResultFields(r) ==
    [data |-> r.data, hasHeader |-> r.hasHeader, errors |-> r.errors,
     alignments |-> r.alignments, cellFormats |-> r.cellFormats,
     rowCount |-> r.rowCount, columnCount |-> r.columnCount,
     format |-> r.format]

\* C20: with exactly one table block the result of parseMultipleTables has
\* the data, hasHeader, errors, alignments, cellFormats and metadata of parse
\* on the same document and options, and multipleTablesData is the one entry
\* with that data, alignments, cellFormats and hasHeader; with no table block
\* data is empty, the only error is EMPTY_DATA and multipleTablesData is empty.
C20_SingleBlockIsParse ==
    MultiParsed =>
        /\ Len(Blocks) = 1 =>
               /\ ResultFields(res) = ResultFields(MarkdownParse(text, opts))
               /\ multi = <<[data |-> res.data, alignments |-> res.alignments,
                             cellFormats |-> res.cellFormats,
                             hasHeader |-> res.hasHeader]>>
        /\ Len(Blocks) = 0 =>
               /\ res.data = <<>>
               /\ Len(res.errors) = 1
               /\ res.errors[1].code = "EMPTY_DATA"
               /\ multi = <<>>

\* One block between prose lines, with a header, a separator and a formatted row
C20_Witness ==
    /\ MultiParsed
    /\ Len(Blocks) = 1
    /\ Prose(Split(text, NL)[1])
    /\ res.hasHeader
    /\ res.alignments # <<>>
    /\ Len(res.data) = 2
    /\ \E f \in DOMAIN res.cellFormats[2] : "isItalic" \in DOMAIN res.cellFormats[2][f]

\* A document of prose only
C20_NoBlockWitness ==
    /\ MultiParsed
    /\ Len(Blocks) = 0
    /\ text # <<>>
    /\ multi = <<>>

\* What parse returns for each block alone
BlockResults ==
    LET blocks == Blocks
    IN  [k \in 1..Len(blocks) |-> MarkdownParse(blocks[k], opts)]

RECURSIVE SumSeq(_)
SumSeq(ns) == IF ns = <<>> THEN 0 ELSE ns[1] + SumSeq(Tail(ns))

MaxOf(ns) == IF ns = {} THEN 0 ELSE CHOOSE n \in ns : \A q \in ns : q <= n

\* C21: with two or more table blocks the top-level data is empty, errors is
\* the concatenation of the errors parse reports for each block alone, in
\* block order and with their block-local line numbers, rowCount is the sum
\* of the blocks' row counts and columnCount the largest first-row width.
C21_AggregateOverBlocks ==
    MultiParsed =>
        LET results == BlockResults
        IN  Len(results) >= 2 =>
                /\ res.data = <<>>
                /\ res.errors = Flatten([k \in 1..Len(results) |-> results[k].errors])
                /\ res.rowCount =
                       SumSeq([k \in 1..Len(results) |-> Len(results[k].data)])
                /\ res.columnCount =
                       MaxOf({FirstRowLength(results[k].data) : k \in 1..Len(results)})

\* Two blocks: rows from the first, an error of the second on its local line 1,
\* which is line 3 of the document
C21_Witness ==
    /\ MultiParsed
    /\ Len(Blocks) = 2
    /\ res.rowCount = 1
    /\ Len(BlockResults[2].errors) = 1
    /\ res.errors = <<ParseError(1, "COLUMN_LIMIT_EXCEEDED")>>
    /\ Len(Split(text, NL)) = 3

\* Two blocks with rows, the wider first row in the second
C21_WidestWitness ==
    /\ MultiParsed
    /\ Len(Blocks) = 2
    /\ res.rowCount >= 2
    /\ res.columnCount = 2
    /\ FirstRowLength(BlockResults[1].data) = 1

(***************************************************************************)
(* Headings before table blocks.                                           *)
(***************************************************************************)
\* The number of '#' characters a line starts with
HashCount(line) ==
    Cardinality({n \in 1..Len(line) : \A j \in 1..n : line[j] = "#"})

\* A heading line: 1 to 6 '#', whitespace, then text
IsHeading(line) ==
    LET n == HashCount(line)
    IN  /\ n \in 1..6
        /\ Len(line) > n + 1
        /\ line[n + 1] = " "
        /\ Trim(SubSeq(line, n + 1, Len(line))) # <<>>

\* The heading text without the '#' prefix and the emphasis markers
HeadingTitle(line) ==
    RemoveEmphasis(
        RemoveEmphasis(Trim(SubSeq(line, HashCount(line) + 1, Len(line))), 2), 1)

\* The start lines of the table blocks, in document order
BlockStartsInOrder(lines) ==
    LET starts == BlockStarts(lines)
    IN  [k \in 1..Cardinality(starts) |->
            CHOOSE s \in starts : Cardinality({j \in starts : j < s}) = k - 1]

\* C22 as stated: in multipleTablesData an entry whose block comes right
\* after a heading line has the stripped heading text as title, and an entry
\* whose block has no heading before it has no title (stated for the
\* documents in which every block has an entry).
C22_TitleFromHeading ==
    MultiParsed =>
        LET lines == Split(text, NL)
            starts == BlockStartsInOrder(lines)
        IN  Len(multi) = Len(starts) =>
                \A k \in 1..Len(starts) :
                    IF starts[k] > 1 /\ IsHeading(lines[starts[k] - 1])
                    THEN /\ "title" \in DOMAIN multi[k]
                         /\ multi[k].title = HeadingTitle(lines[starts[k] - 1])
                    ELSE "title" \notin DOMAIN multi[k]

(***************************************************************************)
(* Properties of the format detection (SpecDetect).                        *)
(***************************************************************************)
Detected == pc = "done" /\ op \in {"detectFormat", "detectFormatFromText"}

\* A line with a pipe at both ends and only '-', ':', whitespace and '|' between
HeaderSeparatorLine(line) ==
    LET l == Trim(line)
    IN  /\ Len(l) >= 3
        /\ l[1] = PIPE /\ l[Len(l)] = PIPE
        /\ \A k \in 2..(Len(l) - 1) : l[k] \in {"-", ":", " ", TAB, PIPE}

HasHeaderSeparator(t) ==
    LET lines == Split(t, NL)
    IN  \E k \in 1..Len(lines) : HeaderSeparatorLine(lines[k])

\* C23: both format detections return a format for every text, 'csv' for a
\* blank text, and 'markdown' for every text with a line of the header
\* separator shape, whatever else the text holds and however many columns.
C23_SeparatorMeansMarkdown ==
    Detected =>
        /\ detected \in {"csv", "tsv", "markdown"}
        /\ WhitespaceOnly(text) => detected = "csv"
        /\ HasHeaderSeparator(text) => detected = "markdown"

(***************************************************************************)
(* Properties of the parse loops on bad rows (Spec).                       *)
(***************************************************************************)
StrictlyIncreasing(ns) == \A j, k \in 1..Len(ns) : j < k => ns[j] < ns[k]

ErrorLines == [e \in 1..Len(res.errors) |-> res.errors[e].line]

\* C24: for a non-blank text, every line the loop reaches gives exactly one
\* data row or exactly one error and no other line gives either (for the
\* delimited parsers rows and errors together number min(non-blank lines,
\* maxRows)); the rows of data are in source order and the errors in
\* increasing line order.
C24_OneRowOrOneErrorPerLine ==
    (Returned /\ ~WhitespaceOnly(text)) =>
        LET lines == LoopLines
            toks == Tokenized(lines)
        IN  /\ \A k \in 1..Len(lines) :
                   Cardinality(RowsFrom(k)) + Cardinality(ErrorsAt(k)) =
                       IF Candidate(lines, k) /\ Reached(lines, toks, k) THEN 1 ELSE 0
            /\ \A r \in 1..Len(res.src) : res.src[r] \in 1..Len(lines)
            /\ \A e \in 1..Len(res.errors) : res.errors[e].line \in 1..Len(lines)
            /\ Len(res.src) = Len(res.data)
            /\ op \in DelimitedOps =>
                   Len(res.data) + Len(res.errors) = Min(Len(lines), opts.maxRows)
            /\ StrictlyIncreasing(res.src)
            /\ StrictlyIncreasing(ErrorLines)

\* A delimited text whose first and third lines are dropped for their column
\* count and whose second line is in data
C24_Witness ==
    /\ Returned
    /\ op \in DelimitedOps
    /\ ErrorLines = <<1, 3>>
    /\ res.src = <<2>>

\* A Markdown text with a dropped row between two rows of data
C24_MarkdownWitness ==
    /\ MarkdownParsed
    /\ ErrorLines = <<2>>
    /\ Len(res.data) = 2
    /\ ~res.hasHeader

(***************************************************************************)
(* Properties of the single-table extraction (SpecDoc).                    *)
(***************************************************************************)
\* The trimmed non-blank lines of the first run of the document: from the
\* first table line to the line before the next line of prose
FirstRun(lines) ==
    LET starts == BlockStartsInOrder(lines)
    IN  IF Len(starts) = 0 THEN <<>>
        ELSE TrimmedNonBlank(SubSeq(lines, starts[1], BlockEnd(lines, starts[1])))

\* C25: MarkdownParser.parse reads the first run of the document only: the
\* lines before the first table line are skipped, blank lines do not end the
\* run, the first line of prose after its start ends it, and every row of
\* data is the row of a line of that run, in order.
C25_FirstRunOnly ==
    (MarkdownParsed /\ ~WhitespaceOnly(text)) =>
        LET run == FirstRun(Split(text, NL))
        IN  /\ MarkdownLines(text) = run
            /\ Len(res.src) = Len(res.data)
            /\ StrictlyIncreasing(res.src)
            /\ \A r \in 1..Len(res.data) :
                   /\ res.src[r] \in 1..Len(run)
                   /\ res.data[r] = ParseTableRow(run[res.src[r]], opts.trimWhitespace)

\* Prose, a table, prose and a second table: data is the row of the first table
C25_Witness ==
    /\ MarkdownParsed
    /\ Len(Blocks) = 2
    /\ Prose(Split(text, NL)[1])
    /\ Len(res.data) = 1
    /\ Len(BlockResults[2].data) = 1
    /\ BlockResults[2].data # res.data

\* A blank line inside the run: the rows before and after it are in data
C25_BlankInsideWitness ==
    /\ MarkdownParsed
    /\ Len(Split(text, NL)) = 4
    /\ Split(text, NL)[2] = <<>>
    /\ Prose(Split(text, NL)[4])
    /\ res.src = <<1, 2>>

(***************************************************************************)
(* Tables separated by blank lines (SpecMulti).                            *)
(***************************************************************************)
\* The rows a run of table lines gives: every line but the consumed
\* separator, without the lines over maxColumns, up to maxRows rows
RunRows(run, hasHeader, o) ==
    LET idx == SelectSeq([k \in 1..Len(run) |-> k],
                   LAMBDA k : /\ ~(hasHeader /\ k = 2)
                              /\ Len(ParseTableRow(run[k], o.trimWhitespace))
                                     <= o.maxColumns)
    IN  [r \in 1..Min(Len(idx), o.maxRows) |->
            ParseTableRow(run[idx[r]], o.trimWhitespace)]

\* C26: when only blank lines separate the table lines of a document,
\* parseMultipleTables returns one table, and every table line after the
\* first separator, header lines and separator lines of later tables
\* included, is an ordinary data row of it.
C26_BlankLinesDoNotSplit ==
    MultiParsed =>
        LET lines == Split(text, NL)
        IN  (Cardinality(BlockStarts(lines)) = 1 /\ \A k \in 1..Len(lines) : ~Prose(lines[k])) =>
                /\ Len(multi) = 1
                /\ multi[1].data =
                       RunRows(TrimmedNonBlank(lines), multi[1].hasHeader, opts)

\* Two tables with a blank line between them: one table whose rows are the
\* first header, the second header and the second separator
C26_Witness ==
    /\ MultiParsed
    /\ text = Join(BlankSeparatedTablesExample, NL)
    /\ Len(multi) = 1
    /\ multi[1].hasHeader
    /\ multi[1].data = <<<<<<"a">>>>, <<<<"a">>>>, <<<<"-">>>>>>

(***************************************************************************)
(* Line numbers of errors (Spec).                                          *)
(***************************************************************************)
\* The cells line k of the text tokenizes to with the called parser
TextLineCells(k) ==
    LET line == Split(text, NL)[k]
    IN  IF op = "MarkdownParser.parse"
        THEN ParseTableRow(Trim(line), opts.trimWhitespace)
        ELSE ParseLine(line, delim, opts.trimWhitespace)

\* C27: the line of every error of a parse of a non-blank text is the
\* 1-indexed number, in the text given to parse, of the row the error is
\* about: that line of the text is the row with more than maxColumns cells.
C27_ErrorLineIsTextLine ==
    (Returned /\ ~WhitespaceOnly(text)) =>
        \A e \in 1..Len(res.errors) :
            /\ res.errors[e].line \in 1..Len(Split(text, NL))
            /\ ~IsBlankText(Split(text, NL)[res.errors[e].line])
            /\ Len(TextLineCells(res.errors[e].line)) > opts.maxColumns

\* C28: whatever the parser, the text and the options (maxRows >= 1), a
\* result without rows has at least one error.
C28_NoRowsImpliesError ==
    (Returned /\ opts.maxRows >= 1 /\ Len(res.data) = 0) => Len(res.errors) > 0

(***************************************************************************)
(* Properties of the format auto-detection of useTableCreator (SpecHook).  *)
(***************************************************************************)
\* No timer is pending and a non-blank text was typed
DetectionSettled == hook.mounted /\ hook.pending = {} /\ hook.last # <<>>

\* C29: with no uploaded files and no manual format change, whenever every
\* pending timer has fired after some edits, format is the format detected
\* from the last non-blank text.
C29_FormatFollowsLastText ==
    DetectionSettled => hook.format = DetectFormatFromText(hook.last)

(***************************************************************************)
(* Properties of the selection flag of the plugin controller               *)
(* (SpecController).                                                       *)
(***************************************************************************)
\* C30: isTableEditorSelecting is true while a select-* handler has started
\* and not yet changed the selection, and the selectionchange listener
\* handles no event caused by the selection of a select-* handler.
C30_FlagCoversSelection ==
    ctl.loaded =>
        /\ \A h \in 1..Len(ctl.handlers) :
               ctl.handlers[h].stage = "awaiting" => ctl.isTableEditorSelecting
        /\ ctl.handled = {}

====
